---- MODULE Spec2Model ----
(***************************************************************************)
(* State-machine model of the article-assistant task coordination          *)
(* protocol: the Task Manager (coordinator) of                             *)
(* src/agents/task_manager/main.py, and the two agents of                  *)
(* src/agents/article_draft/main.py and src/agents/researcher/main.py.     *)
(*                                                                         *)
(* JSON values are tagged tuples: None is <<"None">>, a dict is            *)
(* <<"dict", k1, v1, ...>>, a string is <<"str", s>>.  Free text produced  *)
(* by the LLM is abstracted to the class the code distinguishes: "url"     *)
(* (matches https?://\S+), "text" (non-empty, no URL) and "empty".         *)
(*                                                                         *)
(* The payload of an A2AMessage is modelled as the handler sees it after   *)
(* pydantic resolved the Union of src/protocols/messages.py:33-38, which   *)
(* has Dict[str, Any] as a member: ptype "AssignTask" / "TaskResult" is an *)
(* instance of the model the sender dumped, "dict" a plain dict that would *)
(* validate as that model, "invalid" anything else.  Which of the first    *)
(* two a well-formed payload becomes depends on the pydantic release, so   *)
(* the model leaves it open.                                               *)
(***************************************************************************)
EXTENDS Integers, Sequences, FiniteSets, TLC

\* ---------------------------------------------------------------- bounds
\* Task ids minted in a run of the whole system (Spec).
MaxTasks == 1
\* Task ids minted in a run of the coordinator against any environment (CoordSpec).
MaxTriggers == 2
\* Messages the environment POSTs to /a2a/result in a run of CoordSpec.
MaxIngest == 2
\* Messages POSTed to /a2a/result in a run of IngestSpec.
MaxPosts == 2

\* ------------------------------------------------------------- JSON values
None == <<"None">>
EmptyDict == <<"dict">>
Str(s) == <<"str", s>>
ErrorDict(code, msg) == <<"dict", "code", code, "message", msg>>
MessageDict(msg) == <<"dict", "message", msg>>

\* Python truthiness of a JSON value: None, {} and "" are falsy.
Truthy(v) == v \notin {None, EmptyDict, Str("")}

\* Python's `v or d`.
PyOr(v, d) == IF Truthy(v) THEN v ELSE d

\* -------------------------------------------------------------- identifiers
\* uuid4 values minted by trigger (or by another client of an agent).
TaskIds == 1..(IF MaxTasks > MaxTriggers THEN MaxTasks ELSE MaxTriggers)
\* A task_id no trigger call ever minted.
ForeignId == (IF MaxTasks > MaxTriggers THEN MaxTasks ELSE MaxTriggers) + 1
\* 0 is the empty task_id (falsy at task_manager/main.py:27).
AllIds == 0..ForeignId

Agents == {"article_draft_agent", "researcher_agent"}
Topics == {"", "IoT"}

\* ------------------------------------------------------ coordinator records
Rec(s, r, e, q) == [status |-> s, result |-> r, error |-> e, question |-> q]

ProcessingRecord == Rec("processing", None, None, None)

DefaultRecord == Rec("unknown", None, None, None)

DispatchFailedRecord(agent) ==
    Rec("failed", None, MessageDict("Failed to communicate with " \o agent), None)

InternalErrorRecord ==
    Rec("failed", None, MessageDict("Internal server error processing result payload"), None)

Terminal == {"completed", "failed", "requires_clarification"}

Put(tbl, k, v) == [x \in (DOMAIN tbl) \cup {k} |-> IF x = k THEN v ELSE tbl[x]]

\* A variant of the update that stops after line 52 for a status it does not
\* know: the record takes payload.status as it came.
ApplyTaskResult_KeepsPayloadStatus(cur, p) ==
    IF p.status = "completed"
    THEN Rec("completed", PyOr(p.result, EmptyDict), None, None)
    ELSE IF p.status = "failed"
    THEN Rec("failed", None, PyOr(p.error, MessageDict("Unknown error from agent.")), None)
    ELSE IF p.status = "requires_clarification"
    THEN Rec("requires_clarification", None, None,
             PyOr(p.question, <<"dict", "text", "Clarification needed, no question provided.">>))
    ELSE [cur EXCEPT !.status = p.status]

\* A variant of the update that sets the field of the status and leaves the
\* other fields as they are.
ApplyTaskResult_KeepsOtherFields(cur, p) ==
    IF p.status = "completed"
    THEN [cur EXCEPT !.status = "completed", !.result = PyOr(p.result, EmptyDict)]
    ELSE IF p.status = "failed"
    THEN [cur EXCEPT !.status = "failed",
                     !.error = PyOr(p.error, MessageDict("Unknown error from agent."))]
    ELSE IF p.status = "requires_clarification"
    THEN [cur EXCEPT !.status = "requires_clarification",
                     !.question = PyOr(p.question,
                         <<"dict", "text", "Clarification needed, no question provided.">>)]
    ELSE [cur EXCEPT !.status = "unknown",
                     !.error = MessageDict("Received unknown status: " \o p.status)]

\* A variant of the update that keeps a record that already has a terminal status.
ApplyTaskResult_FirstResultWins(cur, p) ==
    IF cur.status \in Terminal THEN cur
    ELSE IF p.status = "completed"
    THEN Rec("completed", PyOr(p.result, EmptyDict), None, None)
    ELSE IF p.status = "failed"
    THEN Rec("failed", None, PyOr(p.error, MessageDict("Unknown error from agent.")), None)
    ELSE IF p.status = "requires_clarification"
    THEN Rec("requires_clarification", None, None,
             PyOr(p.question, <<"dict", "text", "Clarification needed, no question provided.">>))
    ELSE [cur EXCEPT !.status = "unknown",
                     !.error = MessageDict("Received unknown status: " \o p.status)]

\* A variant of the update without line 76: for a status it does not know the
\* record keeps the payload.status that line 52 wrote, next to the error.
ApplyTaskResult_StoresAnyStatus(cur, p) ==
    IF p.status = "completed"
    THEN Rec("completed", PyOr(p.result, EmptyDict), None, None)
    ELSE IF p.status = "failed"
    THEN Rec("failed", None, PyOr(p.error, MessageDict("Unknown error from agent.")), None)
    ELSE IF p.status = "requires_clarification"
    THEN Rec("requires_clarification", None, None,
             PyOr(p.question, <<"dict", "text", "Clarification needed, no question provided.">>))
    ELSE [cur EXCEPT !.status = p.status,
                     !.error = MessageDict("Received unknown status: " \o p.status)]

\* A variant of the update that marks a result whose status the record already
\* has as a duplicate.
ApplyTaskResult_FlagsDuplicate(cur, p) ==
    IF cur.status = p.status
    THEN [cur EXCEPT !.status = "unknown", !.error = MessageDict("Duplicate result")]
    ELSE IF p.status = "completed"
    THEN Rec("completed", PyOr(p.result, EmptyDict), None, None)
    ELSE IF p.status = "failed"
    THEN Rec("failed", None, PyOr(p.error, MessageDict("Unknown error from agent.")), None)
    ELSE IF p.status = "requires_clarification"
    THEN Rec("requires_clarification", None, None,
             PyOr(p.question, <<"dict", "text", "Clarification needed, no question provided.">>))
    ELSE [cur EXCEPT !.status = "unknown",
                     !.error = MessageDict("Received unknown status: " \o p.status)]

\* Lines 52-77 of receive_a2a_result: the update keyed on payload.status.
\* A variant of the update that stores the result of a completed payload as it
\* came (line 56 without `or {}`).
ApplyTaskResult_StoresNullResult(cur, p) ==
    IF p.status = "completed"
    THEN Rec("completed", p.result, None, None)
    ELSE IF p.status = "failed"
    THEN Rec("failed", None, PyOr(p.error, MessageDict("Unknown error from agent.")), None)
    ELSE IF p.status = "requires_clarification"
    THEN Rec("requires_clarification", None, None,
             PyOr(p.question, <<"dict", "text", "Clarification needed, no question provided.">>))
    ELSE [cur EXCEPT !.status = "unknown",
                     !.error = MessageDict("Received unknown status: " \o p.status)]

\* A variant of the update whose failed branch leaves the result in place (no
\* line 63).
ApplyTaskResult_FailedKeepsResult(cur, p) ==
    IF p.status = "completed"
    THEN Rec("completed", PyOr(p.result, EmptyDict), None, None)
    ELSE IF p.status = "failed"
    THEN [cur EXCEPT !.status = "failed",
                     !.error = PyOr(p.error, MessageDict("Unknown error from agent.")),
                     !.question = None]
    ELSE IF p.status = "requires_clarification"
    THEN Rec("requires_clarification", None, None,
             PyOr(p.question, <<"dict", "text", "Clarification needed, no question provided.">>))
    ELSE [cur EXCEPT !.status = "unknown",
                     !.error = MessageDict("Received unknown status: " \o p.status)]

ApplyTaskResult(cur, p) ==
    IF p.status = "completed"
    THEN Rec("completed", PyOr(p.result, EmptyDict), None, None)
    ELSE IF p.status = "failed"
    THEN Rec("failed", None, PyOr(p.error, MessageDict("Unknown error from agent.")), None)
    ELSE IF p.status = "requires_clarification"
    THEN Rec("requires_clarification", None, None,
             PyOr(p.question, <<"dict", "text", "Clarification needed, no question provided.">>))
    ELSE [cur EXCEPT !.status = "unknown",
                     !.error = MessageDict("Received unknown status: " \o p.status)]

\* A variant of receive_a2a_result whose except clause re-initialises the record
\* instead of failing it.
IngestTable_ResetsOnBadPayload(tbl, m) ==
    IF m.task_id = 0 THEN tbl
    ELSE IF m.message_type = "task_result"
    THEN IF m.ptype \in {"TaskResult", "dict"}
         THEN LET cur == IF m.task_id \in DOMAIN tbl THEN tbl[m.task_id] ELSE DefaultRecord
              IN  Put(tbl, m.task_id, ApplyTaskResult(cur, m.payload))
         ELSE Put(tbl, m.task_id, ProcessingRecord)
    ELSE tbl

\* A variant of receive_a2a_result that takes a status it does not know for a
\* payload error.
IngestTable_RejectsUnknownStatus(tbl, m) ==
    IF m.task_id = 0 THEN tbl
    ELSE IF m.message_type = "task_result"
    THEN IF m.ptype \in {"TaskResult", "dict"} /\ m.payload.status \in Terminal
         THEN LET cur == IF m.task_id \in DOMAIN tbl THEN tbl[m.task_id] ELSE DefaultRecord
              IN  Put(tbl, m.task_id, ApplyTaskResult(cur, m.payload))
         ELSE Put(tbl, m.task_id, InternalErrorRecord)
    ELSE tbl

\* A variant of receive_a2a_result that leaves the table alone when the payload
\* does not validate.
IngestTable_IgnoresBadPayload(tbl, m) ==
    IF m.task_id = 0 THEN tbl
    ELSE IF m.message_type = "task_result"
    THEN IF m.ptype \in {"TaskResult", "dict"}
         THEN LET cur == IF m.task_id \in DOMAIN tbl THEN tbl[m.task_id] ELSE DefaultRecord
              IN  Put(tbl, m.task_id, ApplyTaskResult(cur, m.payload))
         ELSE tbl
    ELSE tbl

\* A variant of receive_a2a_result that handles every message type as it handles
\* task_result.
IngestTable_AnyMessageType(tbl, m) ==
    IF m.task_id = 0 THEN tbl
    ELSE IF m.ptype \in {"TaskResult", "dict"}
         THEN LET cur == IF m.task_id \in DOMAIN tbl THEN tbl[m.task_id] ELSE DefaultRecord
              IN  Put(tbl, m.task_id, ApplyTaskResult(cur, m.payload))
         ELSE Put(tbl, m.task_id, InternalErrorRecord)

\* A variant of receive_a2a_result without the check of task_id.
IngestTable_NoTaskIdCheck(tbl, m) ==
    IF m.message_type = "task_result"
    THEN IF m.ptype \in {"TaskResult", "dict"}
         THEN LET cur == IF m.task_id \in DOMAIN tbl THEN tbl[m.task_id] ELSE DefaultRecord
              IN  Put(tbl, m.task_id, ApplyTaskResult(cur, m.payload))
         ELSE Put(tbl, m.task_id, InternalErrorRecord)
    ELSE tbl

\* A variant of receive_a2a_result whose except clause fails every record.
IngestTable_FailsAllOnBadPayload(tbl, m) ==
    IF m.task_id = 0 THEN tbl
    ELSE IF m.message_type = "task_result"
    THEN IF m.ptype \in {"TaskResult", "dict"}
         THEN LET cur == IF m.task_id \in DOMAIN tbl THEN tbl[m.task_id] ELSE DefaultRecord
              IN  Put(tbl, m.task_id, ApplyTaskResult(cur, m.payload))
         ELSE [x \in (DOMAIN tbl) \cup {m.task_id} |-> InternalErrorRecord]
    ELSE tbl

\* A variant of receive_a2a_result whose except clause removes the record.
IngestTable_DropsOnBadPayload(tbl, m) ==
    IF m.task_id = 0 THEN tbl
    ELSE IF m.message_type = "task_result"
    THEN IF m.ptype \in {"TaskResult", "dict"}
         THEN LET cur == IF m.task_id \in DOMAIN tbl THEN tbl[m.task_id] ELSE DefaultRecord
              IN  Put(tbl, m.task_id, ApplyTaskResult(cur, m.payload))
         ELSE [x \in (DOMAIN tbl) \ {m.task_id} |-> tbl[x]]
    ELSE tbl

\* receive_a2a_result as a function of the table and the message: the new table.
IngestTable(tbl, m) ==
    IF m.task_id = 0 THEN tbl
    ELSE IF m.message_type = "task_result"
    THEN IF m.ptype \in {"TaskResult", "dict"}
         THEN LET cur == IF m.task_id \in DOMAIN tbl THEN tbl[m.task_id] ELSE DefaultRecord
              IN  Put(tbl, m.task_id, ApplyTaskResult(cur, m.payload))
         ELSE Put(tbl, m.task_id, InternalErrorRecord)
    ELSE tbl

\* receive_a2a_result: the "status" of the response body.
IngestResponse(m) ==
    IF m.task_id = 0 THEN "ack_error"
    ELSE IF m.message_type = "task_result"
    THEN IF m.ptype \in {"TaskResult", "dict"} THEN "ack" ELSE "error"
    ELSE "error"

NotFound == Rec("HTTP_404", None, None, None)

\* A variant of get_task_status that answers a processing record for a task_id
\* the table does not hold.
get_task_status_Defaulting(tbl, id) == IF id \in DOMAIN tbl THEN tbl[id] ELSE ProcessingRecord

\* get_task_status: the record, or the 404 answer.
get_task_status(tbl, id) == IF id \in DOMAIN tbl THEN tbl[id] ELSE NotFound


\* ------------------------------------------------------------------ messages
\* An assign_task A2AMessage as the agent's handler sees it.
AssignMsg(a, pt, tt, topic) == [agent |-> a, ptype |-> pt, task_type |-> tt, topic |-> topic]

NoMsg == AssignMsg("", "", "", "")

\* The task_type each agent implements.
TaskTypeOf(a) == IF a = "article_draft_agent" THEN "write_article_draft" ELSE "research"

\* A2APayloadTaskResult(status, result, error, question).model_dump()
TaskResultPayload(s, r, e, q) == [status |-> s, result |-> r, error |-> e, question |-> q]

\* The A2AMessage an agent POSTs to the coordinator's /a2a/result; seq is the
\* number of the POST within the handler call (a fresh message_id per POST).
ResultMsg(t, n, p) ==
    [task_id |-> t, seq |-> n, message_type |-> "task_result", ptype |-> "dict",
     payload |-> p]

\* ------------------------------------------------------------- agent handlers
\* What a handler does next: return `resp` without sending (next = "done"), POST
\* `payload` and then return `resp` (next = "post"), or await the executor.
Reject(code, msg, resp) ==
    [next |-> "post", payload |-> TaskResultPayload("failed", None, ErrorDict(code, msg), None),
     resp |-> resp]

Return(resp) == [next |-> "done", payload |-> TaskResultPayload("", None, None, None), resp |-> resp]

RunExecutor == [next |-> "exec", payload |-> TaskResultPayload("", None, None, None), resp |-> ""]

\* article_draft receive_a2a_message, lines 103-128 and 209-216: validation of an
\* assign_task message; bucket is os.getenv("CLOUD_STORAGE_BUCKET_NAME") being set.
ArticleValidate(m, bucket) ==
    IF m.ptype # "AssignTask" THEN Return("error")
    ELSE IF m.task_type = "write_article_draft"
    THEN IF m.topic = ""
         THEN Reject("MISSING_PARAMETER", "Article topic is missing.", "error")
         ELSE IF ~bucket
         THEN Reject("CONFIG_ERROR", "Cloud Storage bucket name is not configured.", "http500")
         ELSE RunExecutor
    ELSE Reject("UNKNOWN_TASK_TYPE", "Unknown task type received by Article Draft Agent", "error")

\* researcher receive_a2a_message, lines 42-69 and 109-115.
ResearcherValidate(m) ==
    IF m.ptype \notin {"AssignTask", "dict"}
    THEN Reject("AGENT_ERROR", "Payload validation/type check failed", "error")
    ELSE IF m.task_type = "research"
    THEN IF m.topic = ""
         THEN Reject("AGENT_ERROR", "Research topic is missing.", "error")
         ELSE RunExecutor
    ELSE Reject("AGENT_ERROR", "Unknown task type received", "error")

Validate(m, bucket) ==
    IF m.agent = "article_draft_agent" THEN ArticleValidate(m, bucket) ELSE ResearcherValidate(m)

\* article_draft lines 159-176: the text the URL is searched in. out is the class
\* of agent_outcome["output"], last that of the last intermediate step's observation.
CombinedText(out, last) == IF out # "empty" THEN out ELSE last

\* The text a handler classifies: article_draft searches the URL in combined_text
\* (lines 159-180); researcher sends final_result_summary, taken from the output
\* alone (lines 74-92; an output of None becomes a placeholder sentence).
OutputText(a, out, last) == IF a = "article_draft_agent" THEN CombinedText(out, last) ELSE out

\* final_result_data of article_draft lines 154, 178, 185.
ArticleResultData(text) ==
    IF text = "url" THEN <<"dict", "raw_output", "final_text_response", "saved_url">>
    ELSE <<"dict", "raw_output", "final_text_response">>

\* article_draft lines 180-196: classification of the executor's output and the
\* payload handed to send_a2a_result_to_task_manager.
ArticleClassify(out, last) ==
    LET text == CombinedText(out, last)
        final_status == IF text = "url" THEN "completed" ELSE "failed"
        error_data ==
            IF text = "url" THEN None
            ELSE IF text = "text"
            THEN ErrorDict("URL_NOT_FOUND_IN_OUTPUT", "no URL found in the output")
            ELSE ErrorDict("EMPTY_AGENT_OUTPUT", "the output was empty or not text")
    IN  TaskResultPayload(final_status, ArticleResultData(text),
                          IF final_status = "failed" THEN error_data ELSE None, None)

\* researcher lines 74-98: every output that the executor returns is sent as completed.
ResearcherClassify(out, last) ==
    TaskResultPayload("completed", <<"dict", "summary">>, None, None)

Classify(a, out, last) ==
    IF a = "article_draft_agent" THEN ArticleClassify(out, last) ELSE ResearcherClassify(out, last)

\* The failed payload sent from the except clause (article_draft 200-206,
\* researcher 102-107).
ExceptPayload(a) ==
    IF a = "article_draft_agent"
    THEN TaskResultPayload("failed", None,
             ErrorDict("AGENT_RUNTIME_ERROR", "Unexpected error during AgentExecutor runtime"), None)
    ELSE TaskResultPayload("failed", None,
             ErrorDict("AGENT_ERROR", "Agent execution or result sending failed"), None)

\* What the handler answers once its POST in the try block succeeded.
TryResponse(a) == IF a = "article_draft_agent" THEN "processing" ELSE "ack"

\* What the handler answers once the POST of the except clause succeeded:
\* article_draft raises HTTPException(500) (line 207), researcher returns (line 108).
ExceptResponse(a) == IF a = "article_draft_agent" THEN "http500" ELSE "ack_error"


\* ---------------------------------------------------------------- tool adapter
\* MCPToolResult(status, result, error) of messages.py:80-84.
MCPToolResult(s, r, e) == [status |-> s, result |-> r, error |-> e]

NoToolResult == MCPToolResult("", None, None)

\* The tools the wrappers of src/tools call, with the parameters they pass.
ToolNames == {"search_web", "generate_text", "upload_file"}

ToolParameters(tool) ==
    IF tool = "search_web" THEN <<"dict", "query">>
    ELSE IF tool = "generate_text"
    THEN <<"dict", "prompt", "model", "max_tokens", "temperature">>
    ELSE <<"dict", "bucket_name", "destination_blob_name", "source_file_content">>

\* MCPToolCall(tool_name, task_id, parameters) validates (lines 22-26, before the
\* try): tool_name is a str, task_id a str or None, and parameters a dict with
\* str keys, which the Dict[str, Any] member of the Union accepts whatever the
\* tool is.
ValidToolCall(tool, params, tid) ==
    /\ tool \in STRING
    /\ params[1] = "dict"
    /\ tid[1] \in {"None", "str"}

\* How the requests.post of lines 31-37 can end: an exception of requests, a
\* non-2xx status, or a 2xx status with a body that is not JSON, is JSON but no
\* object, is an object that is no MCPToolResult, or is an MCPToolResult.
TransportFailures == {"connection_error", "timeout", "http_error", "not_json", "not_object",
                      "no_status"}

PostOutcomes == TransportFailures \cup {"result"}

\* MCPToolResult bodies a tool server answers with.
ServerResults ==
    {MCPToolResult("success", <<"dict", "data">>, None),
     MCPToolResult("success", None, None),
     MCPToolResult("failure", None, ErrorDict("INVALID_PARAMETERS", "Invalid parameters"))}

\* A variant of lines 30-52 without the `except Exception` clause.
AdapterOutcome_NoCatchAll(outcome, body, jsonErrorIsRequestException) ==
    IF outcome = "result" THEN [pc |-> "returned", ret |-> body]
    ELSE IF outcome \in {"connection_error", "timeout", "http_error"}
            \/ (outcome = "not_json" /\ jsonErrorIsRequestException)
    THEN [pc |-> "returned",
          ret |-> MCPToolResult("failure", None, ErrorDict("MCP_CALL_FAILED", outcome))]
    ELSE [pc |-> "raised", ret |-> NoToolResult]

\* Lines 30-52 of call_mcp_tool: what the call ends with.  response.json() raises
\* requests.exceptions.JSONDecodeError, a RequestException in requests >= 2.27 and
\* a plain ValueError before; MCPToolResult(**body) raises TypeError or
\* ValidationError, which `except Exception` catches.
AdapterOutcome(outcome, body, jsonErrorIsRequestException) ==
    IF outcome = "result" THEN [pc |-> "returned", ret |-> body]
    ELSE IF outcome \in {"connection_error", "timeout", "http_error"}
            \/ (outcome = "not_json" /\ jsonErrorIsRequestException)
    THEN [pc |-> "returned",
          ret |-> MCPToolResult("failure", None, ErrorDict("MCP_CALL_FAILED", outcome))]
    ELSE [pc |-> "returned",
          ret |-> MCPToolResult("failure", None, ErrorDict("UNEXPECTED_ERROR", outcome))]

ToolCall(pos, tool, params, tid, outcome, ret) ==
    [pc |-> pos, tool |-> tool, params |-> params, task_id |-> tid, outcome |-> outcome,
     ret |-> ret]

NoCall == ToolCall("idle", "", EmptyDict, None, "", NoToolResult)

\* ---------------------------------------------------------------- tool servers
Servers == {"cloud_storage", "creative_llm", "web_search"}

\* The tools each server's call_tool implements.
ServerTools(server) ==
    IF server = "cloud_storage" THEN {"upload_file", "download_file", "delete_file"}
    ELSE IF server = "creative_llm" THEN {"generate_text"}
    ELSE {"search_web"}

\* The tool names a client may send: the implemented ones and one no server has.
CallableTools == ToolNames \cup {"download_file", "delete_file", "translate"}

\* The fields without a default of the parameter model of each tool
\* (messages.py:44-65); search_web has no model, its server reads "query".
RequiredKeys(tool) ==
    IF tool = "upload_file" THEN {"bucket_name", "destination_blob_name", "source_file_content"}
    ELSE IF tool = "download_file" THEN {"bucket_name", "source_blob_name"}
    ELSE IF tool = "delete_file" THEN {"bucket_name", "blob_name"}
    ELSE IF tool = "generate_text" THEN {"prompt"}
    ELSE IF tool = "search_web" THEN {"query"}
    ELSE {}

Keys(params) == {params[i] : i \in 2..Len(params)}

\* <Model>.model_validate(tool_call.parameters) succeeds: the required fields are
\* there (extra keys are ignored, values are strings and numbers as sent).
ParamsValid(tool, params) == RequiredKeys(tool) \subseteq Keys(params)

\* The Union of MCPToolCall.parameters (messages.py:71-77) turns a dict that
\* validates as one of the four parameter models into an instance of it, and
\* leaves any other dict a dict.
ResolvesToModel(params) ==
    \E tool \in {"generate_text", "upload_file", "download_file", "delete_file"} :
        ParamsValid(tool, params)

\* The parameters a client may send: those of the three wrappers, those of
\* download_file, and none.
CallParameters ==
    {ToolParameters(tool) : tool \in ToolNames}
    \cup {<<"dict", "bucket_name", "source_blob_name">>, EmptyDict}

\* How the capability itself (the storage client, the LLM) ends once it is used.
OpOutcomes == {"ok", "not_found", "error"}

Failure(code, msg) == MCPToolResult("failure", None, ErrorDict(code, msg))

\* What call_tool did with a request: the arm it took, the capability operations
\* it attempted, and the HTTP status and body it answered.
ServerAnswer(arm, work, http, body) == [arm |-> arm, work |-> work, http |-> http, body |-> body]

\* raise HTTPException(status_code=404, detail=MCPToolResult(...).model_dump()).
ToolNotFound404 == ServerAnswer("unknown_tool", {}, 404, Failure("TOOL_NOT_FOUND", "Tool not found."))

\* A variant of cloud_storage call_tool that opens the bucket before it
\* validates the parameters.
cloud_storage_call_tool_WorksFirst(tool, params, init, op) ==
    IF ~init
    THEN ServerAnswer("not_initialized", {}, 200,
             Failure("STORAGE_NOT_INITIALIZED", "Cloud Storage client is not initialized."))
    ELSE IF tool \in ServerTools("cloud_storage")
    THEN IF ~ParamsValid(tool, params)
         THEN ServerAnswer("invalid_parameters", {tool}, 200,
                  Failure("INVALID_PARAMETERS", "Invalid parameters for " \o tool))
         ELSE IF op = "ok"
         THEN ServerAnswer(tool, {tool}, 200, MCPToolResult("success", <<"dict", "bucket", "blob">>, None))
         ELSE IF op = "not_found"
         THEN ServerAnswer(tool, {tool}, 200,
                  Failure(IF tool = "upload_file" THEN "BUCKET_NOT_FOUND" ELSE "BLOB_NOT_FOUND",
                          "not found"))
         ELSE ServerAnswer(tool, {tool}, 200,
                  Failure(IF tool = "upload_file" THEN "UPLOAD_FAILED"
                          ELSE IF tool = "download_file" THEN "DOWNLOAD_FAILED"
                          ELSE "DELETE_FAILED", "failed"))
    ELSE ToolNotFound404

\* A variant of cloud_storage call_tool without the else arm: a tool name it does
\* not know falls through and the handler returns None, which the framework
\* answers as an empty success.
cloud_storage_call_tool_SilentDefault(tool, params, init, op) ==
    IF ~init
    THEN ServerAnswer("not_initialized", {}, 200,
             Failure("STORAGE_NOT_INITIALIZED", "Cloud Storage client is not initialized."))
    ELSE IF tool \in ServerTools("cloud_storage")
    THEN IF ~ParamsValid(tool, params)
         THEN ServerAnswer("invalid_parameters", {}, 200,
                  Failure("INVALID_PARAMETERS", "Invalid parameters for " \o tool))
         ELSE IF op = "ok"
         THEN ServerAnswer(tool, {tool}, 200, MCPToolResult("success", <<"dict", "bucket", "blob">>, None))
         ELSE IF op = "not_found"
         THEN ServerAnswer(tool, {tool}, 200,
                  Failure(IF tool = "upload_file" THEN "BUCKET_NOT_FOUND" ELSE "BLOB_NOT_FOUND",
                          "not found"))
         ELSE ServerAnswer(tool, {tool}, 200,
                  Failure(IF tool = "upload_file" THEN "UPLOAD_FAILED"
                          ELSE IF tool = "download_file" THEN "DOWNLOAD_FAILED"
                          ELSE "DELETE_FAILED", "failed"))
    ELSE ServerAnswer("none", {}, 200, MCPToolResult("success", None, None))

\* cloud_storage call_tool (lines 28-167); init: storage_client is set.
cloud_storage_call_tool(tool, params, init, op) ==
    IF ~init
    THEN ServerAnswer("not_initialized", {}, 200,
             Failure("STORAGE_NOT_INITIALIZED", "Cloud Storage client is not initialized."))
    ELSE IF tool \in ServerTools("cloud_storage")
    THEN IF ~ParamsValid(tool, params)
         THEN ServerAnswer("invalid_parameters", {}, 200,
                  Failure("INVALID_PARAMETERS", "Invalid parameters for " \o tool))
         ELSE IF op = "ok"
         THEN ServerAnswer(tool, {tool}, 200, MCPToolResult("success", <<"dict", "bucket", "blob">>, None))
         ELSE IF op = "not_found"
         THEN ServerAnswer(tool, {tool}, 200,
                  Failure(IF tool = "upload_file" THEN "BUCKET_NOT_FOUND" ELSE "BLOB_NOT_FOUND",
                          "not found"))
         ELSE ServerAnswer(tool, {tool}, 200,
                  Failure(IF tool = "upload_file" THEN "UPLOAD_FAILED"
                          ELSE IF tool = "download_file" THEN "DOWNLOAD_FAILED"
                          ELSE "DELETE_FAILED", "failed"))
    ELSE ToolNotFound404

\* creative_llm call_tool (lines 40-128); init: llm is set.
creative_llm_call_tool(tool, params, init, op) ==
    IF tool = "generate_text"
    THEN IF ~init
         THEN ServerAnswer("not_initialized", {}, 200,
                  Failure("LLM_NOT_INITIALIZED", "Creative LLM MCP's LLM failed to initialize."))
         ELSE IF ~ParamsValid(tool, params)
         THEN ServerAnswer("invalid_parameters", {}, 200,
                  Failure("INVALID_PARAMETERS", "Invalid parameters for generate_text"))
         ELSE IF op = "ok"
         THEN ServerAnswer(tool, {tool}, 200, MCPToolResult("success", <<"dict", "generated_text">>, None))
         ELSE ServerAnswer(tool, {tool}, 200, Failure("LLM_GENERATION_ERROR", "Text generation failed"))
    ELSE ToolNotFound404

\* web_search call_tool (lines 29-94).  tool_call.parameters.get raises
\* AttributeError when the parameters were turned into a model instance, which
\* the framework answers with status 500.
web_search_call_tool(tool, params, init, op) ==
    IF tool = "search_web"
    THEN IF ResolvesToModel(params)
         THEN ServerAnswer("crashed", {}, 500, NoToolResult)
         ELSE IF ~ParamsValid(tool, params)
         THEN ServerAnswer("invalid_parameters", {}, 200,
                  Failure("MISSING_PARAMETER", "Search query is missing."))
         ELSE IF op = "ok"
         THEN ServerAnswer(tool, {tool}, 200, MCPToolResult("success", <<"dict", "search_results">>, None))
         ELSE ServerAnswer(tool, {tool}, 200, Failure("LLM_SEARCH_ERROR", "Simulated search failed"))
    ELSE ServerAnswer("unknown_tool", {}, 200, Failure("TOOL_NOT_FOUND", "Tool not found."))

call_tool(server, tool, params, init, op) ==
    IF server = "cloud_storage" THEN cloud_storage_call_tool(tool, params, init, op)
    ELSE IF server = "creative_llm" THEN creative_llm_call_tool(tool, params, init, op)
    ELSE web_search_call_tool(tool, params, init, op)

\* A tool call at a server: on its way (pc "wire") or answered.
Request(pos, server, tool, params, init, answer) ==
    [pc |-> pos, server |-> server, tool |-> tool, params |-> params, init |-> init,
     answer |-> answer]

NoServerAnswer == ServerAnswer("", {}, 0, NoToolResult)

NoRequest == Request("idle", "", "", EmptyDict, FALSE, NoServerAnswer)

\* ------------------------------------------------------------ message encoding
\* A payload is the variant it is an instance of and its fields; "dict" is the
\* Dict[str, Any] member of the Union.  Numbers and dates are tagged strings.
Payload(variant, fields) == [variant |-> variant, fields |-> fields]

IntVal(n) == <<"int", n>>
Datetime(t) == <<"datetime", t>>

\* The payload models in the order of the Union (messages.py:33-38).
UnionOrder == <<"AssignTask", "StatusUpdate", "TaskResult">>

Fields(model) ==
    IF model = "AssignTask" THEN {"task_type", "parameters"}
    ELSE IF model = "StatusUpdate" THEN {"status", "progress", "message"}
    ELSE {"status", "result", "error", "question"}

\* The fields declared with Field(...): task_type and status.
Required(model) == IF model = "AssignTask" THEN {"task_type"} ELSE {"status"}

\* parameters has default_factory=dict, the Optional fields default to None.
DefaultOf(field) == IF field = "parameters" THEN EmptyDict ELSE None

\* model_dump(mode='json') of a message: the payload becomes the object of its
\* fields, nulls included, and the name of its class is not written anywhere;
\* the timestamp becomes an ISO string.
EncodeMessage(msg) ==
    [task_id |-> msg.task_id, message_type |-> msg.message_type,
     timestamp |-> Str(msg.timestamp[2]), payload |-> msg.payload.fields]

\* An object validates as a model when the required fields are there; keys the
\* model does not declare are ignored (the models do not forbid extras).
ValidAs(model, d) == Required(model) \subseteq DOMAIN d

AsModel(model, d) ==
    Payload(model, [k \in Fields(model) |-> IF k \in DOMAIN d THEN d[k] ELSE DefaultOf(k)])

FieldsSet(model, d) == Cardinality(Fields(model) \cap DOMAIN d)

\* How pydantic resolves the untagged Union for an object, by release and input
\* mode: the object validated as Python data matches Dict[str, Any] exactly and
\* stays a dict; validated as JSON it becomes the first model in Union order that
\* validates (releases before 2.8) or the valid model with the most fields set.
Resolutions == {"keeps_dict", "first_match", "most_fields"}

ResolveUnion(d, resolution) ==
    LET valid == {i \in 1..Len(UnionOrder) : ValidAs(UnionOrder[i], d)}
        first == CHOOSE i \in valid : \A j \in valid : i <= j
        best == CHOOSE i \in valid :
                    \A j \in valid :
                        \/ FieldsSet(UnionOrder[i], d) > FieldsSet(UnionOrder[j], d)
                        \/ FieldsSet(UnionOrder[i], d) = FieldsSet(UnionOrder[j], d) /\ i <= j
    IN  IF resolution = "keeps_dict" \/ valid = {} THEN Payload("dict", d)
        ELSE IF resolution = "first_match" THEN AsModel(UnionOrder[first], d)
        ELSE AsModel(UnionOrder[best], d)

\* A2AMessage.model_validate of the JSON object.
DecodeMessage(wire, resolution) ==
    [task_id |-> wire.task_id, message_type |-> wire.message_type,
     timestamp |-> Datetime(wire.timestamp[2]),
     payload |-> ResolveUnion(wire.payload, resolution)]

Message(id, mt, p) ==
    [task_id |-> id, message_type |-> mt, timestamp |-> Datetime("2025-01-01T00:00:00"),
     payload |-> p]

\* Messages with a payload of each variant, every optional field null or set.
AssignPayloads ==
    {Payload("AssignTask", [task_type |-> Str(tt), parameters |-> ps]) :
        tt \in {"research", "write_article_draft"}, ps \in {EmptyDict, <<"dict", "topic">>}}

StatusPayloads ==
    {Payload("StatusUpdate", [status |-> Str(st), progress |-> pr, message |-> ms]) :
        st \in {"processing", "completed"}, pr \in {None, IntVal("50")},
        ms \in {None, Str("halfway")}}

ResultPayloads ==
    {Payload("TaskResult", [status |-> Str(st), result |-> r, error |-> e, question |-> q]) :
        st \in {"completed", "failed"}, r \in {None, <<"dict", "summary">>},
        e \in {None, ErrorDict("AGENT_ERROR", "boom")}, q \in {None, Str("Which style?")}}

Messages ==
    {Message("task-1", "assign_task", p) : p \in AssignPayloads}
    \cup {Message("task-1", "task_status_update", p) : p \in StatusPayloads}
    \cup {Message("task-1", "task_result", p) : p \in ResultPayloads}

Codec(pos, msg, wire, resolution, out) ==
    [pc |-> pos, msg |-> msg, wire |-> wire, resolution |-> resolution, out |-> out]

NoMessage == Message("", "", Payload("dict", <<>>))

NoCodec == Codec("idle", NoMessage, EncodeMessage(NoMessage), "", NoMessage)

\* --------------------------------------------------------------- tool wrappers
\* A dict with values is <<"dict", key, value, key, value, ...>>.
HasKey(d, k) == \E i \in 2..Len(d) : i % 2 = 0 /\ d[i] = k

DictGet(d, k, default) ==
    IF HasKey(d, k) /\ Len(d) % 2 = 1
    THEN d[(CHOOSE i \in 2..Len(d) : i % 2 = 0 /\ d[i] = k) + 1]
    ELSE default

\* The wrapper of each tool and the key of the artifact in its result.
Wrappers == {"upload_file", "generate_text", "research_web"}

WrappedTool(wrapper) == IF wrapper = "research_web" THEN "search_web" ELSE wrapper

ArtifactKey(wrapper) ==
    IF wrapper = "upload_file" THEN "public_url"
    ELSE IF wrapper = "generate_text" THEN "generated_text"
    ELSE "search_results"

\* A list of search results, each one its title.
List(items) == <<"list">> \o items

\* The bodies a server at the tool's URL can answer with, as MCPToolResult
\* accepts them (status any str, result and error optional dicts).
WrapperBodies(wrapper) ==
    {MCPToolResult("success", <<"dict", ArtifactKey(wrapper), v>>, None) :
        v \in (IF wrapper = "research_web" THEN {List(<<"IoT basics">>), List(<<>>)}
               ELSE IF wrapper = "upload_file" THEN {"https://x/y.md"}
               ELSE {"An article."})}
    \cup {MCPToolResult("success", r, None) : r \in {None, EmptyDict, <<"dict", "data", "x">>}}
    \cup {MCPToolResult("failure", None, e) :
            e \in {None, ErrorDict("INVALID_PARAMETERS", "Invalid parameters"),
                   <<"dict", "code", "TOOL_EXECUTION_ERROR">>}}

\* What a wrapper call came to: it returned the artifact or an error string, or
\* an exception left it.
WrapperOutcome(pos, kind, text) == [pc |-> pos, kind |-> kind, text |-> text]

AttributeError == WrapperOutcome("raised", "AttributeError", "")

\* f"<prefix>{mcp_result.error.get('message', <default>)}": None has no get.
ErrorString(prefix, r, default) ==
    IF r.error = None THEN AttributeError
    ELSE WrapperOutcome("returned", "error", prefix \o DictGet(r.error, "message", default))

\* UploadFileTool._arun after call_mcp_tool returned r.
UploadFileTool_arun(r) ==
    IF r.status = "success" /\ Truthy(r.result) /\ HasKey(r.result, "public_url")
    THEN WrapperOutcome("returned", "artifact", DictGet(r.result, "public_url", ""))
    ELSE ErrorString("Error uploading file: ", r, "Unknown upload error")

\* GenerateTextTool._arun after call_mcp_tool returned r.
GenerateTextTool_arun(r) ==
    IF r.status = "success" /\ Truthy(r.result) /\ HasKey(r.result, "generated_text")
    THEN WrapperOutcome("returned", "artifact", DictGet(r.result, "generated_text", ""))
    ELSE ErrorString("Error generating text: ", r, "Unknown generation error")

\* "\n".join of the formatted results (each one by its title).
RECURSIVE FormatResults(_)
FormatResults(items) ==
    IF Len(items) = 0 THEN ""
    ELSE "Title: " \o Head(items) \o "\n---"
         \o (IF Len(items) = 1 THEN "" ELSE "\n" \o FormatResults(Tail(items)))

\* ResearchTool._run after call_mcp_tool returned r: on success it reads
\* mcp_result.result.get without testing the result.
ResearchTool_run(query, r) ==
    IF r.status = "success"
    THEN IF r.result = None THEN AttributeError
         ELSE LET results == DictGet(r.result, "search_results", List(<<>>))
              IN  IF Len(results) > 1
                  THEN WrapperOutcome("returned", "artifact",
                           "Search Results for '" \o query \o "':\n"
                               \o FormatResults(Tail(results)))
                  ELSE WrapperOutcome("returned", "no_results",
                           "Search Results for '" \o query \o "': No results found.")
    ELSE ErrorString("Error calling search tool for '" \o query \o "': ", r, "Unknown error")

RunWrapper(wrapper, arg, r) ==
    IF wrapper = "upload_file" THEN UploadFileTool_arun(r)
    ELSE IF wrapper = "generate_text" THEN GenerateTextTool_arun(r)
    ELSE ResearchTool_run(arg, r)

\* The arguments the agent's executor passes: the query, prompt or blob name.
WrapperArgs == {"IoT", "AI", "5G"}

Wrap(pos, wrapper, arg, r, out) ==
    [pc |-> pos, wrapper |-> wrapper, arg |-> arg, ret |-> r, out |-> out]

NoOutcome == WrapperOutcome("", "", "")

NoWrap == Wrap("idle", "", "", NoToolResult, NoOutcome)

\* ------------------------------------------------------------- polling client
\* st.session_state of the client and where its script is: processing,
\* current_task_id (0 is None), last_task_type, the position of the run (idle: the
\* run ended; posting: its POST to trigger is out; polling: the run reached the
\* polling block, or ended in sleep and st.rerun and the next run polls), the
\* task the pending POST will create, and the answer of the last poll.
Session(processing, id, type, pos, req, last) ==
    [processing |-> processing, current_task_id |-> id, last_task_type |-> type,
     pc |-> pos, req |-> req, last |-> last]

NoSession == Session(FALSE, 0, "", "idle", 0, "")

\* The statuses for which the client polls again (line 292).
InProgress == {"processing", "queued", "running"}

\* What the status endpoint can answer besides a record of this coordinator's
\* table: no record (404), no answer in 10 s, a failure of the request (no
\* connection, 5xx), and the statuses the client knows and this coordinator
\* does not use.
OtherAnswers == {"404", "timeout", "error", "queued", "running"}

\* The answer of /tasks/{task_id}/status from the table.
StatusAnswer(tbl, id) ==
    IF get_task_status(tbl, id) = NotFound THEN "404" ELSE get_task_status(tbl, id).status

\* A variant of the polling block whose last branch polls again for a status
\* the client does not know.
PollStatus_RetriesUnknownStatus(session, answer) ==
    IF answer \in {"404", "timeout"} \cup InProgress
    THEN [session EXCEPT !.last = answer]
    ELSE IF answer \in {"completed", "failed", "requires_clarification", "error"}
    THEN [session EXCEPT !.processing = FALSE, !.pc = "idle", !.last = answer]
    ELSE [session EXCEPT !.last = answer]

\* The polling block (lines 221-329) for one answer of the status endpoint:
\* polling_rerun_needed leaves the client polling, every other branch sets
\* processing to False and the run ends.
PollStatus(session, answer) ==
    IF answer = "404"
    THEN [session EXCEPT !.last = answer]
    ELSE IF answer = "timeout"
    THEN [session EXCEPT !.last = answer]
    ELSE IF answer = "error"
    THEN [session EXCEPT !.processing = FALSE, !.pc = "idle", !.last = answer]
    ELSE IF answer = "completed"
    THEN [session EXCEPT !.processing = FALSE, !.pc = "idle", !.last = answer]
    ELSE IF answer = "failed"
    THEN [session EXCEPT !.processing = FALSE, !.pc = "idle", !.last = answer]
    ELSE IF answer = "requires_clarification"
    THEN [session EXCEPT !.processing = FALSE, !.pc = "idle", !.last = answer]
    ELSE IF answer \in InProgress
    THEN [session EXCEPT !.last = answer]
    ELSE [session EXCEPT !.processing = FALSE, !.pc = "idle", !.last = answer]


\* --------------------------------------------------------------------- state
VARIABLES
    task_statuses,  \* the coordinator's table: task_id -> record (main.py:15)
    nextId,         \* the next uuid4 to be minted
    busy,           \* the task whose trigger call is blocked in requests.post, or 0
    dispatch,       \* per task: outcome of the requests.post inside trigger
    trigResp,       \* per task: what trigger answered its caller
    assign,         \* per task: the assign_task message built for it
    pc,             \* per task: position of the agent's handler call
    onOk,           \* per task: what the handler answers once its pending POST succeeds
    resp,           \* per task: what the agent's handler answered
    sent,           \* per task: the payloads the handler POSTed, in order
    exec,           \* per task: how the executor ended, whether a tool call failed, and
                    \* the class of the output text the handler classified
    net,            \* task_result messages POSTed to /a2a/result and not yet handled
    ingests,        \* number of messages the environment POSTed to /a2a/result
    served,         \* the last answer /a2a/result gave a client of the environment
    mcp,            \* the call of call_mcp_tool under way: position, arguments, outcome
    srv,            \* the tool call a tool server got last: request, arm taken, work, answer
    repeated,       \* the message /a2a/result served last equals the one it served before
    codec,          \* an A2AMessage being encoded and decoded: the message, its JSON, the result
    wrap,           \* the call of a tool wrapper under way: position, tool, what it returned
    ui              \* the polling client: its session state and the poll under way

coordVars == <<task_statuses, nextId, busy, dispatch, trigResp>>
agentVars == <<assign, pc, onOk, resp, sent, exec>>
clientVars == <<codec, wrap, ui>>
vars == <<task_statuses, nextId, busy, dispatch, trigResp, assign, pc, onOk, resp, sent,
          exec, net, ingests, served, mcp, srv, repeated, codec, wrap, ui>>

NoExec == [ended |-> "no", toolFailed |-> FALSE, text |-> ""]

\* A message of a client other than the agents, as /a2a/result sees it.
EnvMsg(id, mt, pt, p) ==
    [task_id |-> id, seq |-> 0, message_type |-> mt, ptype |-> pt, payload |-> p]

NoPayload == TaskResultPayload("", None, None, None)

\* The response body of /a2a/result to the message it answers.
Answer(m) == [msg |-> m, status |-> IngestResponse(m)]

NoAnswer == [msg |-> EnvMsg(0, "", "", NoPayload), status |-> ""]

Init ==
    /\ task_statuses = <<>>
    /\ nextId = 1
    /\ busy = 0
    /\ dispatch = [t \in TaskIds |-> "none"]
    /\ trigResp = [t \in TaskIds |-> "none"]
    /\ assign = [t \in TaskIds |-> NoMsg]
    /\ pc = [t \in TaskIds |-> "none"]
    /\ onOk = [t \in TaskIds |-> ""]
    /\ resp = [t \in TaskIds |-> ""]
    /\ sent = [t \in TaskIds |-> <<>>]
    /\ exec = [t \in TaskIds |-> NoExec]
    /\ net = {}
    /\ ingests = 0
    /\ served = NoAnswer
    /\ mcp = NoCall
    /\ srv = NoRequest
    /\ repeated = FALSE
    /\ codec = NoCodec
    /\ wrap = NoWrap
    /\ ui = NoSession

\* --------------------------------------------------------------- coordinator
\* trigger_research_task / trigger_article_task up to the requests.post: mint the
\* task_id, insert the processing record, build and send the assign_task message
\* (the style parameter of trigger_article_task only reaches the prompt).
\* The handler has no await, so the coordinator serves nothing else until the
\* POST returns or raises (TriggerEnd*).
\* A variant of trigger that sends the assignment before it inserts the record
\* (the insertion moved behind the requests.post).
TriggerBegin_SendsFirst(a, topic, pt, limit) ==
    /\ busy = 0
    /\ nextId <= limit
    /\ task_statuses' = task_statuses
    /\ assign' = [assign EXCEPT ![nextId] = AssignMsg(a, pt, TaskTypeOf(a), topic)]
    /\ pc' = [pc EXCEPT ![nextId] = "wire"]
    /\ dispatch' = [dispatch EXCEPT ![nextId] = "waiting"]
    /\ busy' = nextId
    /\ nextId' = nextId + 1
    /\ UNCHANGED <<trigResp, onOk, resp, sent, exec, net, ingests, served, mcp, srv, repeated, clientVars>>

TriggerBegin(a, topic, pt, limit) ==
    /\ busy = 0
    /\ nextId <= limit
    /\ task_statuses' = Put(task_statuses, nextId, ProcessingRecord)
    /\ assign' = [assign EXCEPT ![nextId] = AssignMsg(a, pt, TaskTypeOf(a), topic)]
    /\ pc' = [pc EXCEPT ![nextId] = "wire"]
    /\ dispatch' = [dispatch EXCEPT ![nextId] = "waiting"]
    /\ busy' = nextId
    /\ nextId' = nextId + 1
    /\ UNCHANGED <<trigResp, onOk, resp, sent, exec, net, ingests, served, mcp, srv, repeated, clientVars>>

WellFormedAs == {"AssignTask", "dict"}

trigger_research_task(limit) ==
    \E topic \in Topics, pt \in WellFormedAs : TriggerBegin("researcher_agent", topic, pt, limit)

trigger_article_task(limit) ==
    \E topic \in Topics, pt \in WellFormedAs : TriggerBegin("article_draft_agent", topic, pt, limit)

\* The three ways the try statement of trigger ends (lines 140-157, 185-202).
DispatchOk(t) ==
    /\ task_statuses' = task_statuses
    /\ dispatch' = [dispatch EXCEPT ![t] = "ok"]
    /\ trigResp' = [trigResp EXCEPT ![t] = "processing"]

\* A variant in which the Timeout is handled by the RequestException clause.
DispatchTimeout_AsHardFailure(t) ==
    /\ task_statuses' = Put(task_statuses, t, DispatchFailedRecord(assign[t].agent))
    /\ dispatch' = [dispatch EXCEPT ![t] = "timeout"]
    /\ trigResp' = [trigResp EXCEPT ![t] = "503"]

DispatchTimeout(t) ==
    /\ task_statuses' = task_statuses
    /\ dispatch' = [dispatch EXCEPT ![t] = "timeout"]
    /\ trigResp' = [trigResp EXCEPT ![t] = "processing"]

\* A variant in which the RequestException is handled as the Timeout is.
DispatchFailed_Silent(t) ==
    /\ task_statuses' = task_statuses
    /\ dispatch' = [dispatch EXCEPT ![t] = "failed"]
    /\ trigResp' = [trigResp EXCEPT ![t] = "processing"]

DispatchFailed(t) ==
    /\ task_statuses' = Put(task_statuses, t, DispatchFailedRecord(assign[t].agent))
    /\ dispatch' = [dispatch EXCEPT ![t] = "failed"]
    /\ trigResp' = [trigResp EXCEPT ![t] = "503"]

\* The agent answered 2xx within the timeout.
TriggerEndOk ==
    /\ busy # 0 /\ pc[busy] = "done" /\ resp[busy] # "http500"
    /\ DispatchOk(busy)
    /\ busy' = 0
    /\ UNCHANGED <<nextId, agentVars, net, ingests, served, mcp, srv, repeated, clientVars>>

\* A variant of trigger whose requests.post has no timeout: it waits until the
\* agent answers or the connection fails.
TriggerEndTimeout_WaitsForAgent ==
    /\ busy # 0 /\ pc[busy] # "done"
    /\ FALSE     \* requests.exceptions.Timeout is never raised
    /\ DispatchTimeout(busy)
    /\ busy' = 0
    /\ UNCHANGED <<nextId, agentVars, net, ingests, served, mcp, srv, repeated, clientVars>>

\* requests.exceptions.Timeout: no answer within 5 s, whether or not the agent
\* got the message or is still working on it.
TriggerEndTimeout ==
    /\ busy # 0 /\ pc[busy] # "done"
    /\ DispatchTimeout(busy)
    /\ busy' = 0
    /\ UNCHANGED <<nextId, agentVars, net, ingests, served, mcp, srv, repeated, clientVars>>

\* Any other RequestException: the agent answered 5xx (raise_for_status), or the
\* connection failed and the message never reached the agent.
TriggerEndFailed ==
    /\ busy # 0
    /\ \/ /\ pc[busy] = "done" /\ resp[busy] = "http500"
          /\ pc' = pc
       \/ /\ pc[busy] = "wire"
          /\ pc' = [pc EXCEPT ![busy] = "lost"]
    /\ DispatchFailed(busy)
    /\ busy' = 0
    /\ UNCHANGED <<nextId, assign, onOk, resp, sent, exec, net, ingests, served, mcp, srv, repeated, clientVars>>

\* get_task_status(task_id): a read of the table, served when the coordinator
\* is not blocked; its answer is get_task_status(task_statuses, id).
GetStatus(id) ==
    /\ busy = 0
    /\ get_task_status(task_statuses, id)
          \in {NotFound} \cup {task_statuses[x] : x \in DOMAIN task_statuses}
    /\ UNCHANGED vars

\* The agent of a pending POST gets the answer of receive_a2a_result and returns.
PostAnswered(m) ==
    IF m.task_id \in TaskIds /\ pc[m.task_id] \in {"post_try", "post"}
       /\ Len(sent[m.task_id]) = m.seq
    THEN /\ pc' = [pc EXCEPT ![m.task_id] = "done"]
         /\ resp' = [resp EXCEPT ![m.task_id] = onOk[m.task_id]]
         /\ onOk' = [onOk EXCEPT ![m.task_id] = ""]
         /\ served' = served
         /\ repeated' = repeated
    ELSE /\ UNCHANGED <<pc, resp, onOk>>
         /\ served' = IF m.seq = 0 THEN Answer(m) ELSE served
         /\ repeated' = IF m.seq = 0 THEN served.msg = m ELSE repeated

\* A variant in which the coordinator serves /a2a/result while a trigger call
\* awaits its POST (trigger written with an awaiting HTTP client).
receive_a2a_result_WhileDispatching ==
    \E m \in net :
        /\ task_statuses' = IngestTable(task_statuses, m)
        /\ net' = net \ {m}
        /\ PostAnswered(m)
        /\ UNCHANGED <<nextId, busy, dispatch, trigResp, assign, sent, exec, ingests, mcp, srv, clientVars>>

\* A variant in which the coordinator serves the task_result of the task whose
\* trigger call is still waiting for its POST (a suspension point in trigger).
receive_a2a_result_DuringOwnTrigger ==
    \E m \in net :
        /\ busy = 0 \/ m.task_id = busy
        /\ task_statuses' = IngestTable(task_statuses, m)
        /\ net' = net \ {m}
        /\ PostAnswered(m)
        /\ UNCHANGED <<nextId, busy, dispatch, trigResp, assign, sent, exec, ingests, mcp, srv, clientVars>>

\* receive_a2a_result for a message an agent handler POSTed.
receive_a2a_result ==
    \E m \in net :
        /\ busy = 0
        /\ task_statuses' = IngestTable(task_statuses, m)
        /\ net' = net \ {m}
        /\ PostAnswered(m)
        /\ UNCHANGED <<nextId, busy, dispatch, trigResp, assign, sent, exec, ingests, mcp, srv, clientVars>>

\* ---------------------------------------------------------------------- agents
\* An assign_task message POSTed to an agent by a client other than trigger, of
\* the kinds trigger never builds: a payload that is no AssignTask, or a
\* task_type the agent does not implement.
DirectAssign ==
    \E a \in Agents, pt \in {"AssignTask", "invalid"} :
        /\ nextId <= MaxTasks
        /\ busy = 0
        /\ assign' = [assign EXCEPT ![nextId] =
                         IF pt = "invalid" THEN AssignMsg(a, pt, "", "")
                         ELSE AssignMsg(a, pt, "summarize", "IoT")]
        /\ pc' = [pc EXCEPT ![nextId] = "wire"]
        /\ nextId' = nextId + 1
        /\ UNCHANGED <<task_statuses, busy, dispatch, trigResp, onOk, resp, sent, exec, net,
                       ingests, served, mcp, srv, repeated, clientVars>>

\* requests.post of a task_result message: it is on its way to /a2a/result.
Post(t, p, next, answer) ==
    /\ sent' = [sent EXCEPT ![t] = Append(@, p)]
    /\ net' = net \cup {ResultMsg(t, Len(sent[t]) + 1, p)}
    /\ pc' = [pc EXCEPT ![t] = next]
    /\ onOk' = [onOk EXCEPT ![t] = answer]

\* receive_a2a_message up to its first await or return: the validation.
AgentReceive(t) ==
    /\ pc[t] = "wire"
    /\ \E bucket \in BOOLEAN :
         LET v == Validate(assign[t], bucket)
         IN  CASE v.next = "done" ->
                    /\ pc' = [pc EXCEPT ![t] = "done"]
                    /\ resp' = [resp EXCEPT ![t] = v.resp]
                    /\ UNCHANGED <<sent, net, onOk>>
               [] v.next = "post" ->
                    /\ Post(t, v.payload, "post", v.resp)
                    /\ resp' = resp
               [] v.next = "exec" ->
                    /\ pc' = [pc EXCEPT ![t] = "exec"]
                    /\ UNCHANGED <<sent, net, onOk, resp>>
    /\ UNCHANGED <<coordVars, assign, exec, ingests, served, mcp, srv, repeated, clientVars>>

OutputClasses == {"url", "text", "empty"}

\* agent_executor.ainvoke returns: the handler classifies the output and POSTs
\* the result inside the try block.  tf: a tool call of the run answered failure.
ExecReturn(t) ==
    /\ pc[t] = "exec"
    /\ \E out \in OutputClasses, last \in OutputClasses, tf \in BOOLEAN :
        /\ out # "empty" => last = "empty"
        /\ exec' = [exec EXCEPT ![t] = [ended |-> "returned", toolFailed |-> tf,
                                        text |-> OutputText(assign[t].agent, out, last)]]
        /\ Post(t, Classify(assign[t].agent, out, last), "post_try", TryResponse(assign[t].agent))
    /\ UNCHANGED <<coordVars, assign, resp, ingests, served, mcp, srv, repeated, clientVars>>

\* agent_executor.ainvoke raises: the except clause POSTs a failed result.
ExecRaise(t) ==
    /\ pc[t] = "exec"
    /\ exec' = [exec EXCEPT ![t] = [ended |-> "raised", toolFailed |-> FALSE, text |-> ""]]
    /\ Post(t, ExceptPayload(assign[t].agent), "post", ExceptResponse(assign[t].agent))
    /\ UNCHANGED <<coordVars, assign, resp, ingests, served, mcp, srv, repeated, clientVars>>

\* The handler's pending requests.post raises (connection error, timeout, 5xx).
\* delivered says whether the coordinator still gets the message.  Inside the
\* try block the except clause POSTs a second, failed result; elsewhere the
\* exception leaves the handler and the caller gets a 500.
PostRaise(t, delivered) ==
    /\ pc[t] \in {"post_try", "post"}
    /\ ResultMsg(t, Len(sent[t]), sent[t][Len(sent[t])]) \in net
    /\ LET kept == IF delivered THEN net
                   ELSE net \ {ResultMsg(t, Len(sent[t]), sent[t][Len(sent[t])])}
       IN  IF pc[t] = "post_try"
           THEN /\ sent' = [sent EXCEPT ![t] = Append(@, ExceptPayload(assign[t].agent))]
                /\ net' = kept \cup {ResultMsg(t, Len(sent[t]) + 1, ExceptPayload(assign[t].agent))}
                /\ pc' = [pc EXCEPT ![t] = "post"]
                /\ onOk' = [onOk EXCEPT ![t] = ExceptResponse(assign[t].agent)]
                /\ resp' = resp
           ELSE /\ net' = kept
                /\ pc' = [pc EXCEPT ![t] = "done"]
                /\ resp' = [resp EXCEPT ![t] = "http500"]
                /\ onOk' = [onOk EXCEPT ![t] = ""]
                /\ sent' = sent
    /\ UNCHANGED <<coordVars, assign, exec, ingests, served, mcp, srv, repeated, clientVars>>

\* ---------------------------------------------------------------- tool adapter
\* call_mcp_tool(mcp_server_url, tool_name, parameters, task_id) up to its
\* requests.post: the MCPToolCall is built outside the try statement.
CallBegin ==
    \E tool \in ToolNames, tid \in {None, Str("task-1")} :
      \E params \in {ToolParameters(tool), EmptyDict} :
        /\ mcp.pc = "idle"
        /\ mcp' = ToolCall(IF ValidToolCall(tool, params, tid) THEN "posting" ELSE "raised",
                           tool, params, tid, "", NoToolResult)
        /\ UNCHANGED <<coordVars, agentVars, net, ingests, served, srv, repeated, clientVars>>

\* The requests.post ends and call_mcp_tool returns or raises.
CallEnd ==
    \E outcome \in PostOutcomes, body \in ServerResults, lib \in BOOLEAN :
        /\ mcp.pc = "posting"
        /\ mcp' = [mcp EXCEPT !.pc = AdapterOutcome(outcome, body, lib).pc,
                              !.outcome = outcome,
                              !.ret = AdapterOutcome(outcome, body, lib).ret]
        /\ UNCHANGED <<coordVars, agentVars, net, ingests, served, srv, repeated, clientVars>>

\* The caller took the result; the next call may begin.
CallDone ==
    /\ mcp.pc = "returned"
    /\ mcp' = NoCall
    /\ UNCHANGED <<coordVars, agentVars, net, ingests, served, srv, repeated, clientVars>>

\* ---------------------------------------------------------------- tool servers
\* Any client POSTs a tool call to /mcp/tool of a server.
DirectCall ==
    \E server \in Servers, tool \in CallableTools, params \in CallParameters :
        /\ srv.pc # "wire"
        /\ srv' = Request("wire", server, tool, params, FALSE, NoServerAnswer)
        /\ UNCHANGED <<coordVars, agentVars, net, ingests, served, mcp, repeated, clientVars>>

\* call_mcp_tool(url of the server, tool_name, parameters) up to its requests.post
\* (the arguments are of the types MCPToolCall accepts).
CallServer ==
    \E server \in Servers, tool \in CallableTools, params \in CallParameters :
        /\ mcp.pc = "idle"
        /\ mcp' = ToolCall("posting", tool, params, None, "", NoToolResult)
        /\ srv' = Request("wire", server, tool, params, FALSE, NoServerAnswer)
        /\ UNCHANGED <<coordVars, agentVars, net, ingests, served, repeated, clientVars>>

\* call_tool of the server handles the request and answers.
ServeCall ==
    \E init \in BOOLEAN, op \in OpOutcomes :
        /\ srv.pc = "wire"
        /\ srv' = [srv EXCEPT !.pc = "answered", !.init = init,
                              !.answer = call_tool(srv.server, srv.tool, srv.params, init, op)]
        /\ UNCHANGED <<coordVars, agentVars, net, ingests, served, mcp, repeated, clientVars>>

\* The requests.post of call_mcp_tool gets the server's answer: raise_for_status
\* raises HTTPError for 404 and 500, a 200 body is parsed as MCPToolResult.
CallAnswered ==
    \E lib \in BOOLEAN :
        LET outcome == IF srv.answer.http = 200 THEN "result" ELSE "http_error"
        IN  /\ mcp.pc = "posting" /\ srv.pc = "answered"
            /\ mcp' = [mcp EXCEPT !.pc = AdapterOutcome(outcome, srv.answer.body, lib).pc,
                                  !.outcome = outcome,
                                  !.ret = AdapterOutcome(outcome, srv.answer.body, lib).ret]
            /\ UNCHANGED <<coordVars, agentVars, net, ingests, served, srv, repeated, clientVars>>

\* The requests.post of call_mcp_tool fails on the way, whether or not the server
\* got the request.
CallFailed ==
    \E outcome \in {"connection_error", "timeout"} :
        /\ mcp.pc = "posting"
        /\ mcp' = [mcp EXCEPT !.pc = AdapterOutcome(outcome, NoToolResult, TRUE).pc,
                              !.outcome = outcome,
                              !.ret = AdapterOutcome(outcome, NoToolResult, TRUE).ret]
        /\ UNCHANGED <<coordVars, agentVars, net, ingests, served, srv, repeated, clientVars>>

\* ------------------------------------------------------------- polling client
\* A form is submitted with a topic the supervisor approved: the session is
\* reset for the task and the POST to trigger goes out (lines 128-142, 185-197).
UiSubmit ==
    \E type \in {"article", "research"} :
        /\ ui.pc = "idle"
        /\ ~ui.processing
        /\ nextId <= MaxTasks
        /\ ui' = Session(TRUE, 0, type, "posting", nextId, "")
        /\ UNCHANGED <<coordVars, agentVars, net, ingests, served, mcp, srv, repeated, codec, wrap>>

\* The trigger handler the client's POST reaches.
UiTrigger ==
    /\ ui.pc = "posting"
    /\ ui.req = nextId
    /\ \/ ui.last_task_type = "research" /\ trigger_research_task(MaxTasks)
       \/ ui.last_task_type = "article" /\ trigger_article_task(MaxTasks)

\* The answer of trigger arrives: with the task_id the run goes on to the
\* polling block; a 503 is a RequestException (raise_for_status).
UiSubmitEnd ==
    /\ ui.pc = "posting"
    /\ ui.req < nextId
    /\ busy = 0
    /\ ui' = IF trigResp[ui.req] = "processing"
             THEN [ui EXCEPT !.current_task_id = ui.req, !.pc = "polling"]
             ELSE [ui EXCEPT !.processing = FALSE, !.pc = "idle"]
    /\ UNCHANGED <<coordVars, agentVars, net, ingests, served, mcp, srv, repeated, codec, wrap>>

\* The POST to trigger raises at the client (no connection, no answer in 15 s).
UiSubmitFail ==
    /\ ui.pc = "posting"
    /\ ui' = [ui EXCEPT !.processing = FALSE, !.pc = "idle"]
    /\ UNCHANGED <<coordVars, agentVars, net, ingests, served, mcp, srv, repeated, codec, wrap>>

\* A poll that the coordinator answers from its table.
UiPollServed ==
    /\ ui.pc = "polling"
    /\ ui.processing /\ ui.current_task_id # 0
    /\ busy = 0
    /\ ui' = PollStatus(ui, StatusAnswer(task_statuses, ui.current_task_id))
    /\ UNCHANGED <<coordVars, agentVars, net, ingests, served, mcp, srv, repeated, codec, wrap>>

\* A poll that ends otherwise.
UiPollOther ==
    \E answer \in OtherAnswers :
        /\ ui.pc = "polling"
        /\ ui.processing /\ ui.current_task_id # 0
        /\ ui' = PollStatus(ui, answer)
        /\ UNCHANGED <<coordVars, agentVars, net, ingests, served, mcp, srv, repeated, codec, wrap>>

\* The New Task / Reset button (lines 95-103), pressed between two runs.
UiReset ==
    /\ ui.pc \in {"idle", "polling"}
    /\ ui # NoSession
    /\ ui' = NoSession
    /\ UNCHANGED <<coordVars, agentVars, net, ingests, served, mcp, srv, repeated, codec, wrap>>

\* --------------------------------------------------------------- tool wrappers
\* The executor calls a wrapper, which calls call_mcp_tool with its tool name,
\* its parameters and task_id None.
WrapperCall ==
    \E wrapper \in Wrappers, arg \in WrapperArgs :
        /\ wrap.pc = "idle"
        /\ mcp.pc = "idle"
        /\ wrap' = Wrap("calling", wrapper, arg, NoToolResult, NoOutcome)
        /\ mcp' = ToolCall("posting", WrappedTool(wrapper),
                           ToolParameters(WrappedTool(wrapper)), None, "", NoToolResult)
        /\ UNCHANGED <<coordVars, agentVars, net, ingests, served, srv, repeated, codec, ui>>

\* call_mcp_tool returns (its POST ended in any of its ways) and the wrapper
\* builds what it returns from the result.
WrapperReturn ==
    \E outcome \in PostOutcomes, body \in WrapperBodies(wrap.wrapper), lib \in BOOLEAN :
        /\ wrap.pc = "calling"
        /\ mcp.pc = "posting"
        /\ LET r == AdapterOutcome(outcome, body, lib).ret
               out == RunWrapper(wrap.wrapper, wrap.arg, r)
           IN  /\ wrap' = [wrap EXCEPT !.pc = out.pc, !.ret = r, !.out = out]
               /\ mcp' = [mcp EXCEPT !.pc = "returned", !.outcome = outcome, !.ret = r]
        /\ UNCHANGED <<coordVars, agentVars, net, ingests, served, srv, repeated, codec, ui>>

\* The executor took what the wrapper returned (or its exception).
WrapperDone ==
    /\ wrap.pc \in {"returned", "raised"}
    /\ wrap' = NoWrap
    /\ mcp' = NoCall
    /\ UNCHANGED <<coordVars, agentVars, net, ingests, served, srv, repeated, codec, ui>>

\* ------------------------------------------------------------ message encoding
\* A sender dumps a message to JSON (requests.post(json=...model_dump(mode='json'))).
Encode ==
    \E msg \in Messages :
        /\ codec.pc = "idle"
        /\ codec' = Codec("encoded", msg, EncodeMessage(msg), "", NoMessage)
        /\ UNCHANGED <<coordVars, agentVars, net, ingests, served, mcp, srv, repeated, wrap, ui>>

\* The receiver validates the JSON as an A2AMessage.
Decode ==
    \E resolution \in Resolutions :
        /\ codec.pc = "encoded"
        /\ codec' = [codec EXCEPT !.pc = "decoded", !.resolution = resolution,
                                  !.out = DecodeMessage(codec.wire, resolution)]
        /\ UNCHANGED <<coordVars, agentVars, net, ingests, served, mcp, srv, repeated, wrap, ui>>

CodecDone ==
    /\ codec.pc = "decoded"
    /\ codec' = NoCodec
    /\ UNCHANGED <<coordVars, agentVars, net, ingests, served, mcp, srv, repeated, wrap, ui>>

\* ------------------------------------------------ the coordinator's environment
\* Messages that may reach /a2a/result from anywhere: results, duplicates, other
\* message types, unknown statuses, malformed payloads, absent or unknown task_id.
EnvPayloads ==
    {TaskResultPayload("completed", r, None, None) :
        r \in {None, <<"dict", "saved_url", "https://x/y.md">>}}
    \cup {TaskResultPayload("failed", None, None, None)}
    \cup {TaskResultPayload("requires_clarification", None, None, Str("Which style?"))}
    \cup {TaskResultPayload(st, None, None, None) : st \in {"processing", "paused"}}

\* The messages carrying an unknown or empty task_id are a sample of the others.
EnvMsgs ==
    {EnvMsg(id, "task_result", "dict", p) : id \in TaskIds, p \in EnvPayloads}
    \cup {EnvMsg(ForeignId, "task_result", "dict", p) :
            p \in {q \in EnvPayloads : q.status \in {"completed", "paused"} /\ q.result = None}}
    \cup {EnvMsg(id, "task_result", "invalid", NoPayload) : id \in AllIds}
    \cup {EnvMsg(id, "status_update", "invalid", NoPayload) : id \in AllIds}
    \cup {EnvMsg(0, "task_result", "dict", TaskResultPayload("completed", None, None, None))}

\* receive_a2a_result for a message of the environment.
EnvIngest ==
    \E m \in EnvMsgs :
        /\ busy = 0
        /\ ingests < MaxIngest
        /\ m.task_id < nextId \/ m.task_id = ForeignId
        /\ task_statuses' = IngestTable(task_statuses, m)
        /\ ingests' = ingests + 1
        /\ UNCHANGED <<nextId, busy, dispatch, trigResp, agentVars, net, served, mcp, srv, repeated, clientVars>>

\* The requests.post of trigger ends in one of its three ways, the agent being
\* part of the environment.
EnvDispatchOk ==
    /\ busy # 0 /\ DispatchOk(busy) /\ busy' = 0
    /\ UNCHANGED <<nextId, agentVars, net, ingests, served, mcp, srv, repeated, clientVars>>

EnvDispatchTimeout ==
    /\ busy # 0 /\ DispatchTimeout(busy) /\ busy' = 0
    /\ UNCHANGED <<nextId, agentVars, net, ingests, served, mcp, srv, repeated, clientVars>>

EnvDispatchFailed ==
    /\ busy # 0 /\ DispatchFailed(busy) /\ busy' = 0
    /\ UNCHANGED <<nextId, agentVars, net, ingests, served, mcp, srv, repeated, clientVars>>

\* The messages POSTed in IngestSpec: those of EnvMsgs, and for the triggered
\* tasks a failed result with its error, a requires_clarification result without
\* a question, and an assign_task message.
PostMsgs ==
    EnvMsgs
    \cup {EnvMsg(id, "task_result", "dict", p) :
            id \in TaskIds,
            p \in {TaskResultPayload("failed", None, ErrorDict("AGENT_ERROR", "boom"), None),
                   TaskResultPayload("requires_clarification", None, None, None)}}
    \cup {EnvMsg(id, "assign_task", "invalid", NoPayload) : id \in TaskIds}

\* Any client POSTs a message to /a2a/result: it waits there until the coordinator
\* serves it (receive_a2a_result).  The coordinator serves one request at a time,
\* in arrival order, so one waiting message stands for the queue.
EnvPost ==
    \E m \in PostMsgs :
        /\ net = {}
        /\ ingests < MaxPosts
        /\ m.task_id < nextId \/ m.task_id = ForeignId
        /\ net' = {m}
        /\ ingests' = ingests + 1
        /\ UNCHANGED <<coordVars, agentVars, served, mcp, srv, repeated, clientVars>>

\* ------------------------------------------------------------- specifications
\* The whole system: coordinator, both agents, the messages between them.
Next ==
    \/ trigger_research_task(MaxTasks)
    \/ trigger_article_task(MaxTasks)
    \/ TriggerEndOk
    \/ TriggerEndTimeout
    \/ TriggerEndFailed
    \/ receive_a2a_result
    \/ \E id \in AllIds \ {0} : GetStatus(id)
    \/ DirectAssign
    \/ \E t \in TaskIds : AgentReceive(t)
    \/ \E t \in TaskIds : ExecReturn(t)
    \/ \E t \in TaskIds : ExecRaise(t)
    \/ \E t \in TaskIds, delivered \in BOOLEAN : PostRaise(t, delivered)

Spec == Init /\ [][Next]_vars

\* The topic and the form of the payload matter to the agents alone.
OneRequest == assign'[nextId].topic = "IoT" /\ assign'[nextId].ptype = "dict"

\* The coordinator against any environment.
CoordNext ==
    \/ trigger_research_task(MaxTriggers) /\ OneRequest
    \/ trigger_article_task(MaxTriggers) /\ OneRequest
    \/ EnvDispatchOk
    \/ EnvDispatchTimeout
    \/ EnvDispatchFailed
    \/ EnvIngest
    \/ \E id \in AllIds \ {0} : GetStatus(id)

CoordSpec == Init /\ [][CoordNext]_vars

\* The coordinator serving messages that wait at /a2a/result: the message a step
\* of receive_a2a_result handles is the one that leaves net.
IngestNext ==
    \/ trigger_research_task(MaxTasks + 1) /\ OneRequest   \* one task more, to have two
    \/ EnvDispatchOk
    \/ EnvDispatchFailed
    \/ EnvPost
    \/ receive_a2a_result
    \/ \E id \in AllIds \ {0} : GetStatus(id)

IngestSpec == Init /\ [][IngestNext]_vars

\* The whole system when every POST of a task_result reaches the coordinator
\* (a POST may still raise at the agent after the message went out), with the
\* progress the services make: a handler that got a request runs, the executor
\* returns or raises, the blocked requests.post of trigger ends, and the
\* coordinator serves the requests that reached it.
ReliableNext ==
    \/ trigger_research_task(MaxTasks)
    \/ trigger_article_task(MaxTasks)
    \/ TriggerEndOk
    \/ TriggerEndTimeout
    \/ TriggerEndFailed
    \/ receive_a2a_result
    \/ DirectAssign
    \/ \E t \in TaskIds : AgentReceive(t)
    \/ \E t \in TaskIds : ExecReturn(t)
    \/ \E t \in TaskIds : ExecRaise(t)
    \/ \E t \in TaskIds : PostRaise(t, TRUE)

Progress ==
    /\ \A t \in TaskIds : WF_vars(AgentReceive(t))
    /\ \A t \in TaskIds : WF_vars(ExecReturn(t) \/ ExecRaise(t))
    /\ WF_vars(TriggerEndOk \/ TriggerEndTimeout \/ TriggerEndFailed)
    /\ WF_vars(receive_a2a_result)

FairSpec == Init /\ [][ReliableNext]_vars /\ Progress

\* The trigger calls and the agents they reach, with the one progress that
\* trigger's own code guarantees: its requests.post has timeout=5, so it returns
\* or raises whatever the agent does.  Nothing is assumed of the agents, the
\* executors or the delivery of results: each may stop for ever at any point.
TriggerNext ==
    \/ trigger_research_task(MaxTasks) /\ OneRequest
    \/ trigger_article_task(MaxTasks) /\ OneRequest
    \/ TriggerEndOk
    \/ TriggerEndTimeout
    \/ TriggerEndFailed
    \/ receive_a2a_result
    \/ \E t \in TaskIds : AgentReceive(t)
    \/ \E t \in TaskIds : ExecReturn(t)
    \/ \E t \in TaskIds : ExecRaise(t)
    \/ \E t \in TaskIds, delivered \in BOOLEAN : PostRaise(t, delivered)

TriggerFairSpec ==
    Init /\ [][TriggerNext]_vars
         /\ WF_vars(TriggerEndOk \/ TriggerEndTimeout \/ TriggerEndFailed)

\* The tool adapter, called again and again with any outcome of its POST.
ToolNext ==
    \/ CallBegin
    \/ CallEnd
    \/ CallDone

ToolSpec == Init /\ [][ToolNext]_vars

\* The tool servers behind the adapter: call_mcp_tool is called with any tool
\* name and parameters for any server.
ServerNext ==
    \/ CallServer
    \/ ServeCall
    \/ CallAnswered
    \/ CallFailed
    \/ CallDone

ServerSpec == Init /\ [][ServerNext]_vars

\* The call is for a tool with a parameter model, at the server that has it.
KnownToolCall ==
    /\ srv'.server \in {"cloud_storage", "creative_llm"}
    /\ srv'.tool \in ServerTools(srv'.server)

\* The payload reaches the handler as the model instance both agents accept.
InstancePayload == assign'[nextId].ptype = "AssignTask"

\* The agents' handlers from the assignment to the sending of their task_result
\* (trigger's POST ends by its timeout), and the tool servers serving calls of
\* any client.
WorkNext ==
    \/ trigger_research_task(MaxTasks) /\ InstancePayload
    \/ trigger_article_task(MaxTasks) /\ InstancePayload
    \/ DirectAssign
    \/ TriggerEndTimeout
    \/ \E t \in TaskIds : AgentReceive(t)
    \/ \E t \in TaskIds : ExecReturn(t)
    \/ \E t \in TaskIds : ExecRaise(t)
    \/ DirectCall /\ KnownToolCall
    \/ ServeCall

WorkSpec == Init /\ [][WorkNext]_vars

\* The step changes the record of a task that a trigger call created and
\* nothing else of the table.
ForTriggeredTask ==
    /\ task_statuses' # task_statuses
    /\ \E t \in DOMAIN task_statuses : task_statuses' = Put(task_statuses, t, task_statuses'[t])

\* The polling client and the coordinator it triggers and polls, the agents
\* being part of the environment (they send results for the tasks they got).  The client polls every 3 s for as long as
\* processing is set, and a coordinator that is not inside a trigger call
\* answers: a poll served from the table comes about.
ClientNext ==
    \/ UiSubmit
    \/ UiTrigger /\ OneRequest
    \/ UiSubmitEnd
    \/ UiSubmitFail
    \/ EnvDispatchOk
    \/ EnvDispatchTimeout
    \/ EnvDispatchFailed
    \/ EnvIngest /\ ForTriggeredTask
    \/ UiPollServed
    \/ UiPollOther
    \/ UiReset

ClientFairSpec == Init /\ [][ClientNext]_vars /\ WF_vars(UiPollServed)

\* The tool wrappers over call_mcp_tool, the server answering anything.
WrapperNext ==
    \/ WrapperCall
    \/ WrapperReturn
    \/ WrapperDone

WrapperSpec == Init /\ [][WrapperNext]_vars

\* Messages of every payload variant, encoded and decoded again.
CodecNext ==
    \/ Encode
    \/ Decode
    \/ CodecDone

CodecSpec == Init /\ [][CodecNext]_vars

\* ===================================================================== claims
\* The handler accepted the assignment: validation passed and the executor ran.
Accepted(t) == exec[t].ended # "no"

\* The handler rejected the assignment for its payload, task_type or topic.
Rejected(t) == assign[t] # NoMsg /\ Validate(assign[t], TRUE).next # "exec"

IsErrorDict(e) == Len(e) = 5 /\ e[1] = "dict" /\ e[2] = "code" /\ e[4] = "message"

\* C1: for every accepted assign_task message the handler POSTs exactly one
\* task_result: never two, and one by the time it returns.
C1_ExactlyOneResult ==
    \A t \in TaskIds :
        Accepted(t) => /\ Len(sent[t]) <= 1
                       /\ pc[t] = "done" => Len(sent[t]) = 1

\* C2: a handler that rejected an assign_task message (payload, task_type or
\* topic) has POSTed a failed task_result with an error {code, message} by the
\* time it returns.
C2_RejectionEmitsFailed ==
    \A t \in TaskIds :
        Rejected(t) /\ pc[t] = "done" =>
            /\ Len(sent[t]) >= 1
            /\ sent[t][1].status = "failed"
            /\ IsErrorDict(sent[t][1].error)

\* C3 (as claimed): a record leaves processing only for completed, failed or
\* requires_clarification, and then keeps that status.
C3_MutatedOnce ==
    [][\A id \in DOMAIN task_statuses :
          /\ task_statuses[id].status = "processing"
                => task_statuses'[id].status \in {"processing"} \cup Terminal
          /\ task_statuses[id].status \in Terminal
                => task_statuses'[id].status = task_statuses[id].status]_vars

\* C3 (amended): the table is a map with one record per task_id, a record is never
\* removed, it leaves processing for completed, failed, requires_clarification or
\* unknown, and a later task_result may replace that status by another one of
\* these four, never by processing.
C3_NeverBackToProcessing ==
    [][\A id \in DOMAIN task_statuses :
          /\ id \in DOMAIN task_statuses'
          /\ task_statuses'[id].status \in {"processing", "unknown"} \cup Terminal
          /\ task_statuses[id].status # "processing"
                => task_statuses'[id].status # "processing"]_vars

\* C3 witness: a record that was completed and then took a further task_result.
C3_Witness ==
    \E id \in TaskIds :
        /\ id \in DOMAIN task_statuses
        /\ task_statuses[id].status = "unknown"
        /\ task_statuses[id].result # None

\* C4: once a record has a terminal status, no step (a duplicate task_result, a
\* task_result whose payload status is "processing", a trigger) makes its status
\* processing.
C4_TerminalNotReverted ==
    [][\A id \in DOMAIN task_statuses :
          task_statuses[id].status \in Terminal
              => get_task_status(task_statuses', id).status # "processing"]_vars

\* C4 witness: a completed record took a task_result with payload status "processing".
C4_Witness ==
    \E id \in DOMAIN task_statuses :
        /\ task_statuses[id].result # None
        /\ task_statuses[id].error = MessageDict("Received unknown status: processing")

\* C5 (as claimed): get_status reports not-found for every task_id no trigger made.
C5_NeverTriggeredNotFound ==
    \A id \in AllIds \ {0} :
        id >= nextId => get_task_status(task_statuses, id) = NotFound

\* C5 (amended): for a task_id no trigger made, get_status reports not-found
\* until an ingest_result call handles a message carrying that task_id, which
\* creates the record; the answer for such a task_id is never a processing record.
C5_NotFoundUntilIngested ==
    [][\A id \in AllIds \ {0} :
          id >= nextId' =>
              /\ get_task_status(task_statuses, id).status # "processing"
              /\ get_task_status(task_statuses', id).status # "processing"
              /\ get_task_status(task_statuses, id) = NotFound
                 /\ get_task_status(task_statuses', id) # NotFound
                    => ingests' = ingests + 1]_vars

\* C5 witness: a task_id that was ingested and never triggered has a record,
\* while another never-triggered task_id has none.
C5_Witness ==
    /\ ForeignId \in DOMAIN task_statuses
    /\ nextId \in TaskIds
    /\ get_task_status(task_statuses, nextId) = NotFound

\* C6: every task whose trigger call answered processing eventually has a
\* terminal status.
C6_EventuallyTerminal ==
    \A t \in TaskIds :
        (trigResp[t] = "processing")
            ~> (get_task_status(task_statuses, t).status \in Terminal)

\* C7: when a tool call of the task answered failure, no task_result of the task
\* is completed.
C7_ToolFailureMeansFailed ==
    \A t \in TaskIds :
        exec[t].toolFailed => \A i \in 1..Len(sent[t]) : sent[t][i].status = "failed"

\* C8: when the executor raised, the handler has POSTed a failed task_result and
\* answers its caller without an error response.
C8_ExceptionStaysInside ==
    \A t \in TaskIds :
        exec[t].ended = "raised" /\ pc[t] = "done" =>
            /\ sent[t][1].status = "failed"
            /\ resp[t] # "http500"

\* C9: when the requests.post of trigger times out, the record is still the
\* processing record and trigger answers processing.
C9_TimeoutKeepsProcessing ==
    [][\A t \in TaskIds :
          dispatch[t] = "waiting" /\ dispatch'[t] = "timeout" =>
              /\ task_statuses'[t] = ProcessingRecord
              /\ trigResp'[t] = "processing"]_vars

\* C9 witness: a trigger call whose requests.post timed out.
C9_Witness ==
    \E t \in TaskIds :
        /\ dispatch[t] = "timeout"
        /\ trigResp[t] = "processing"
        /\ task_statuses[t].status = "processing"

\* C10: when the requests.post of trigger fails otherwise, the record becomes
\* failed with an error and no result or question, and trigger answers 503.
C10_HardFailureReported ==
    [][\A t \in TaskIds :
          dispatch[t] = "waiting" /\ dispatch'[t] = "failed" =>
              /\ task_statuses'[t].status = "failed"
              /\ task_statuses'[t].error # None
              /\ task_statuses'[t].result = None
              /\ task_statuses'[t].question = None
              /\ trigResp'[t] = "503"]_vars

\* C10 witness: a trigger call whose requests.post failed otherwise.
C10_Witness ==
    \E t \in TaskIds :
        /\ dispatch[t] = "failed"
        /\ trigResp[t] = "503"
        /\ task_statuses[t].status = "failed"

\* C11: at the moment a trigger call returns processing with its task_id, after a
\* POST that was answered or timed out, get_status for that task_id answers the
\* processing record; and after a POST that the agent answered no task_result of
\* that task waits at the coordinator to be served before the get_status call.
C11_ProcessingAfterTrigger ==
    [][\A t \in TaskIds :
          trigResp[t] = "none" /\ trigResp'[t] = "processing" =>
              /\ get_task_status(task_statuses', t) = ProcessingRecord
              /\ dispatch'[t] = "ok" => \A m \in net' : m.task_id # t]_vars

\* C11 witness: a trigger call whose POST the agent answered with 2xx has
\* returned, and the record is the processing record.
C11_Witness ==
    \E t \in TaskIds :
        /\ dispatch[t] = "ok"
        /\ trigResp[t] = "processing"
        /\ busy = 0
        /\ get_task_status(task_statuses, t) = ProcessingRecord

\* C12: the step of trigger that sends the assign_task message has inserted the
\* processing record of the fresh task_id, and whenever an agent holds an
\* assignment sent by trigger the table contains that task_id.
C12_RecordBeforeAssignment ==
    [][\A t \in TaskIds :
          /\ dispatch[t] = "none" /\ dispatch'[t] # "none" =>
                /\ t \notin DOMAIN task_statuses
                /\ pc'[t] = "wire"
                /\ get_task_status(task_statuses', t) = ProcessingRecord
          /\ dispatch'[t] # "none" /\ assign'[t] # NoMsg => t \in DOMAIN task_statuses']_vars

\* C12 witness: an agent runs its executor on an assignment of trigger, and the
\* table holds the task_id.
C12_Witness ==
    \E t \in TaskIds :
        /\ dispatch[t] # "none"
        /\ pc[t] = "exec"
        /\ t \in DOMAIN task_statuses

\* The message the coordinator serves in a step: the one that leaves /a2a/result.
Handled == net \ net'

\* A task_result message with a task_id whose payload validates as a task result.
WellFormedResult(m) ==
    m.task_id # 0 /\ m.message_type = "task_result" /\ m.ptype \in {"TaskResult", "dict"}

\* C13: ingest_result of a task_result with a recognized status leaves exactly the
\* record of that status: completed with result = payload.result or {}, failed
\* with error = payload.error or the default message, requires_clarification with
\* question = payload.question or the default text, the other fields null.
C13_RecognizedStatusRecord ==
    [][\A m \in Handled :
          WellFormedResult(m) =>
              LET p == m.payload
                  r == get_task_status(task_statuses', m.task_id)
              IN  /\ p.status = "completed" =>
                        r = Rec("completed",
                                IF p.result \in {None, EmptyDict} THEN EmptyDict ELSE p.result,
                                None, None)
                  /\ p.status = "failed" =>
                        r = Rec("failed", None,
                                IF p.error \in {None, EmptyDict}
                                THEN MessageDict("Unknown error from agent.") ELSE p.error,
                                None)
                  /\ p.status = "requires_clarification" =>
                        r = Rec("requires_clarification", None, None,
                                IF p.question \in {None, Str("")}
                                THEN <<"dict", "text", "Clarification needed, no question provided.">>
                                ELSE p.question)]_vars

\* C13 witness: trigger, then ingest_result(completed, result R): get_status
\* answers completed with result R.
C13_Witness ==
    \E t \in TaskIds :
        /\ dispatch[t] = "ok"
        /\ served.msg.task_id = t
        /\ served.msg.payload.status = "completed"
        /\ get_task_status(task_statuses, t)
              = Rec("completed", <<"dict", "saved_url", "https://x/y.md">>, None, None)

\* C14: ingest_result of a task_result whose payload status is none of completed,
\* failed, requires_clarification sets the record's status to unknown and its
\* error to {message: "Received unknown status: <value>"}, and answers ack.
C14_UnknownStatusRecorded ==
    [][\A m \in Handled :
          WellFormedResult(m) /\ m.payload.status \notin Terminal =>
              LET r == get_task_status(task_statuses', m.task_id)
              IN  /\ r.status = "unknown"
                  /\ r.error = MessageDict("Received unknown status: " \o m.payload.status)
                  /\ served' = [msg |-> m, status |-> "ack"]]_vars

\* C14 witness: scenario 3, a triggered task took a task_result with status paused.
C14_Witness ==
    \E t \in TaskIds :
        /\ served.msg.task_id = t
        /\ served.msg.payload.status = "paused"
        /\ served.status = "ack"
        /\ task_statuses[t] =
              Rec("unknown", None, MessageDict("Received unknown status: paused"), None)

\* C15: ingest_result of a task_result whose payload does not validate forces the
\* record of the task_id to failed with the internal-error message and no result
\* or question, and answers with a response body (status error), not an exception.
C15_MalformedPayloadFails ==
    [][\A m \in Handled :
          m.task_id # 0 /\ m.message_type = "task_result" /\ m.ptype = "invalid" =>
              LET r == get_task_status(task_statuses', m.task_id)
              IN  /\ r.status = "failed"
                  /\ r.error = MessageDict("Internal server error processing result payload")
                  /\ r.result = None /\ r.question = None
                  /\ served' = [msg |-> m, status |-> "error"]]_vars

\* C15 witness: the record of a triggered task was forced to failed by a malformed
\* payload, which was answered with status error.
C15_Witness ==
    \E t \in TaskIds :
        /\ dispatch[t] = "ok"
        /\ served.msg.task_id = t
        /\ served.msg.ptype = "invalid" /\ served.msg.message_type = "task_result"
        /\ served.status = "error"
        /\ task_statuses[t] = InternalErrorRecord

\* C16: ingest_result of a message whose message_type is not task_result leaves
\* the whole table unchanged and answers with a response body.
C16_OtherTypesNoMutation ==
    [][\A m \in Handled :
          m.message_type # "task_result" =>
              /\ task_statuses' = task_statuses
              /\ served'.msg = m
              /\ served'.status \in {"error", "ack_error"}]_vars

\* C16 witness: a status_update for a triggered task was answered, and the record
\* is still the processing record.
C16_Witness ==
    \E t \in TaskIds :
        /\ served.msg.task_id = t
        /\ served.msg.message_type = "status_update"
        /\ served.status = "error"
        /\ task_statuses[t] = ProcessingRecord

C18_NoCrossContamination ==
    [][/\ nextId' # nextId => nextId \notin DOMAIN task_statuses
       /\ \A id \in DOMAIN task_statuses' :
             get_task_status(task_statuses, id) # task_statuses'[id] =>
                 \/ busy = id /\ busy' = 0
                 \/ nextId = id /\ busy' = id
                 \/ \E m \in Handled : m.task_id = id]_vars

\* C18 witness: two triggered tasks, the first completed with its result and the
\* second, served last, failed with its error.
C18_Witness ==
    /\ get_task_status(task_statuses, 1)
          = Rec("completed", <<"dict", "saved_url", "https://x/y.md">>, None, None)
    /\ get_task_status(task_statuses, 2)
          = Rec("failed", None, ErrorDict("AGENT_ERROR", "boom"), None)
    /\ dispatch[1] = "ok" /\ dispatch[2] = "ok"
    /\ served.msg.task_id = 2

C20_AdapterAlwaysReturns ==
    /\ mcp.pc # "raised"
    /\ mcp.pc = "returned" /\ mcp.outcome \in TransportFailures =>
          /\ mcp.ret.status = "failure"
          /\ mcp.ret.result = None
          /\ IsErrorDict(mcp.ret.error)
          /\ mcp.ret.error[3] \in {"MCP_CALL_FAILED", "UNEXPECTED_ERROR"}
          /\ mcp.ret.error[5] # ""

\* C20 witness: the server answered 2xx with a JSON object that is no
\* MCPToolResult, and the call returned a failure with code UNEXPECTED_ERROR.
C20_Witness ==
    /\ mcp.pc = "returned"
    /\ mcp.outcome = "no_status"
    /\ mcp.ret = MCPToolResult("failure", None, ErrorDict("UNEXPECTED_ERROR", "no_status"))


\* C21: in every task_result an agent sends, exactly the field of its status is
\* populated: completed carries result only, failed carries error only,
\* requires_clarification carries question only.
C21_OnlyMatchingField ==
    \A t \in TaskIds : \A i \in 1..Len(sent[t]) :
        LET p == sent[t][i]
        IN  /\ p.status = "completed" =>
                  p.result # None /\ p.error = None /\ p.question = None
            /\ p.status = "failed" =>
                  p.error # None /\ p.result = None /\ p.question = None
            /\ p.status = "requires_clarification" =>
                  p.question # None /\ p.result = None /\ p.error = None


\* The artifact a task is to produce: the article agent's is the URL of the
\* uploaded draft in its output, the researcher's a summary in its output.
ArtifactProduced(a, text) == IF a = "article_draft_agent" THEN text = "url" ELSE text # "empty"

\* C22: the task_result of a task whose executor ran is completed or failed,
\* never requires_clarification; it is completed exactly when the executor
\* returned and the artifact was produced (for the article agent with the URL as
\* saved_url), failed otherwise, so the status is a function of the output text.
C22_ClassifiedByArtifact ==
    \A t \in TaskIds :
        exec[t].ended # "no" /\ Len(sent[t]) >= 1 =>
            /\ \A i \in 1..Len(sent[t]) : sent[t][i].status \in {"completed", "failed"}
            /\ sent[t][1].status =
                  IF exec[t].ended = "returned"
                     /\ ArtifactProduced(assign[t].agent, exec[t].text)
                  THEN "completed" ELSE "failed"
            /\ assign[t].agent = "article_draft_agent" /\ sent[t][1].status = "completed"
                  => sent[t][1].result = ArticleResultData("url")


\* The assign_task messages an agent may be handed.
AssignMsgs(a) ==
    {AssignMsg(a, pt, tt, topic) :
        pt \in {"AssignTask", "dict", "invalid"}, tt \in {TaskTypeOf(a), "summarize"},
        topic \in Topics}

\* The error codes an agent sends when it rejects an assignment.
ValidationCodes(a) ==
    {Validate(x[1], x[2]).payload.error[3] :
        x \in {y \in AssignMsgs(a) \X BOOLEAN : Validate(y[1], y[2]).next = "post"}}

\* The error code an agent sends from its except clause (the executor or the POST
\* of the result raised).
RuntimeCodes(a) == {ExceptPayload(a).error[3]}

\* C23: a semantic failure (the executor returned, the artifact is missing) is
\* reported as a failed task_result whose error code is none of the codes the
\* same agent uses for validation errors and for transport/runtime errors.
C23_SemanticCodeDistinct ==
    \A t \in TaskIds :
        /\ exec[t].ended = "returned"
        /\ ~ArtifactProduced(assign[t].agent, exec[t].text)
        /\ Len(sent[t]) >= 1
        => /\ sent[t][1].status = "failed"
           /\ IsErrorDict(sent[t][1].error)
           /\ sent[t][1].error[3]
                 \notin ValidationCodes(assign[t].agent) \cup RuntimeCodes(assign[t].agent)


\* C24: whenever an agent sends a task_result for an assignment, its handler has
\* already answered that assign_task message (the acknowledgment comes first).
C24_AckBeforeResult ==
    [][\A t \in TaskIds :
          Len(sent'[t]) > Len(sent[t]) => resp[t] # "" /\ pc[t] = "done"]_vars


\* C25: every trigger call returns, with processing and the task_id or with the
\* 503 failure, in every execution, also when the agent never answers and never
\* sends a task_result.
C25_TriggerReturns ==
    \A t \in TaskIds :
        (dispatch[t] = "waiting") ~> (busy # t /\ trigResp[t] \in {"processing", "503"})

\* C25 witness: a trigger call has returned processing while the agent is still
\* running its executor and has sent no task_result.
C25_Witness ==
    \E t \in TaskIds :
        /\ trigResp[t] = "processing" /\ busy = 0
        /\ pc[t] = "exec"
        /\ sent[t] = <<>>


\* C26: an agent never runs its executor (and with it any tool) for an assignment
\* with an unknown task_type or a missing topic, and the cloud-storage and
\* creative-LLM servers attempt no storage or generation operation for a call of
\* one of their tools whose parameters fail validation: they answer a failure.
C26_RejectedBeforeWork ==
    /\ \A t \in TaskIds :
          /\ assign[t] # NoMsg
          /\ assign[t].task_type # TaskTypeOf(assign[t].agent) \/ assign[t].topic = ""
          => pc[t] # "exec" /\ exec[t] = NoExec
    /\ /\ srv.pc = "answered"
       /\ srv.server \in {"cloud_storage", "creative_llm"}
       /\ srv.tool \in ServerTools(srv.server)
       /\ ~ParamsValid(srv.tool, srv.params)
       => /\ srv.answer.work = {}
          /\ srv.answer.body.status = "failure"
          /\ IsErrorDict(srv.answer.body.error)

\* C26 witness: an assignment without topic was rejected with its failed result
\* sent and no executor run, and the cloud-storage server, its client set up,
\* answered INVALID_PARAMETERS to an upload_file call without touching the storage.
C26_Witness ==
    /\ \E t \in TaskIds :
          /\ assign[t].topic = "" /\ assign[t].task_type = TaskTypeOf(assign[t].agent)
          /\ pc[t] = "post" /\ Len(sent[t]) = 1
          /\ exec[t] = NoExec
    /\ srv.pc = "answered" /\ srv.server = "cloud_storage" /\ srv.tool = "upload_file"
    /\ srv.init
    /\ srv.answer.body = Failure("INVALID_PARAMETERS", "Invalid parameters for upload_file")
    /\ srv.answer.work = {}


\* C27: every record of the table has a status in {processing, completed, failed,
\* requires_clarification, unknown}, whatever status strings arrive.
C27_StatusInDomain ==
    \A id \in DOMAIN task_statuses :
        task_statuses[id].status \in {"processing", "unknown"} \cup Terminal

\* C27 witness: a task_result with status paused arrived for a triggered task and
\* one with status processing for another task_id; both records are unknown.
C27_Witness ==
    \E id \in TaskIds, other \in AllIds :
        /\ id # other
        /\ get_task_status(task_statuses, id)
              = Rec("unknown", None, MessageDict("Received unknown status: paused"), None)
        /\ get_task_status(task_statuses, other)
              = Rec("unknown", None, MessageDict("Received unknown status: processing"), None)

\* C28: a task_id for which get_status answers a record is answered a record
\* after every later step (trigger, ingest_result, get_status).
C28_NeverDeleted ==
    [][\A id \in AllIds :
          get_task_status(task_statuses, id) # NotFound
              => get_task_status(task_statuses', id) # NotFound]_vars

\* C28 witness: every trigger and ingest_result call of the run is over, a
\* malformed payload was among them, and the records of all triggered tasks and
\* of the task_id that was only ingested are there.
C28_Witness ==
    /\ nextId = MaxTriggers + 1 /\ busy = 0
    /\ ingests = MaxIngest
    /\ DOMAIN task_statuses = (1..MaxTriggers) \cup {ForeignId}
    /\ task_statuses[1] = InternalErrorRecord

\* C29: ingest_result is idempotent and deterministic: handling the message just
\* handled once more would leave the table as it is, the second of two equal
\* messages handled in a row does leave the table as it was, and the status
\* get_status answers after a well-formed task_result depends on that message alone.
C29_IngestIdempotent ==
    [][\A m \in Handled :
          /\ IngestTable(task_statuses', m) = task_statuses'
          /\ repeated' => task_statuses' = task_statuses
          /\ WellFormedResult(m) =>
                get_task_status(task_statuses', m.task_id).status
                    = ApplyTaskResult(DefaultRecord, m.payload).status]_vars

\* C29 witness: the same completed task_result was handled twice in a row, and
\* the record is the one of the first handling.
C29_Witness ==
    /\ repeated
    /\ served.msg.task_id \in TaskIds
    /\ served.msg.payload.status = "completed" /\ served.msg.payload.result # None
    /\ get_task_status(task_statuses, served.msg.task_id)
          = Rec("completed", served.msg.payload.result, None, None)

\* C30 (as claimed): for a tool name the server does not implement, call_tool
\* takes its unknown-tool arm and does no capability work, and call_mcp_tool
\* returns a failure with an error {code, message}.
C30_UnknownToolArm ==
    srv.pc = "answered" /\ srv.tool \notin ServerTools(srv.server) =>
        /\ srv.answer.arm = "unknown_tool"
        /\ srv.answer.work = {}
        /\ mcp.pc = "returned" =>
              /\ mcp.ret.status = "failure"
              /\ IsErrorDict(mcp.ret.error)

\* C30 (amended): for a tool name the server does not implement, call_tool does
\* no capability work and takes its unknown-tool arm, except that the
\* cloud-storage server without a storage client answers its not-initialized
\* failure before it looks at the tool name; call_mcp_tool returns a failure with
\* an error {code, message} in every case, also when the POST fails on the way.
C30_UnknownToolNeverSucceeds ==
    /\ srv.pc = "answered" /\ srv.tool \notin ServerTools(srv.server) =>
          /\ srv.answer.arm = IF srv.server = "cloud_storage" /\ ~srv.init
                              THEN "not_initialized" ELSE "unknown_tool"
          /\ srv.answer.work = {}
          /\ srv.answer.body.status = "failure"
    /\ mcp.pc = "returned" /\ srv.tool \notin ServerTools(srv.server) =>
          /\ mcp.ret.status = "failure"
          /\ mcp.ret.result = None
          /\ IsErrorDict(mcp.ret.error)

\* C30 witness: the cloud-storage server, its client set up, answered 404 to a
\* call of a tool it does not have, and call_mcp_tool returned MCP_CALL_FAILED.
C30_Witness ==
    /\ srv.pc = "answered" /\ srv.server = "cloud_storage" /\ srv.tool = "translate"
    /\ srv.init
    /\ srv.answer = ToolNotFound404
    /\ mcp.pc = "returned"
    /\ mcp.ret = Failure("MCP_CALL_FAILED", "http_error")


\* C31: a message encoded and decoded again equals the original in every
\* populated field, its payload being of the same variant.
C31_RoundTrip ==
    codec.pc = "decoded" =>
        /\ codec.out.task_id = codec.msg.task_id
        /\ codec.out.message_type = codec.msg.message_type
        /\ codec.out.timestamp = codec.msg.timestamp
        /\ codec.out.payload.variant = codec.msg.payload.variant
        /\ \A k \in DOMAIN codec.msg.payload.fields :
              codec.msg.payload.fields[k] # None =>
                  /\ k \in DOMAIN codec.out.payload.fields
                  /\ codec.out.payload.fields[k] = codec.msg.payload.fields[k]


\* C32 (as claimed): every record of the table has at most one of result, error
\* and question non-null, whatever task_result messages were ingested.
C32_AtMostOneField ==
    \A id \in DOMAIN task_statuses :
        Cardinality({f \in {"result", "error", "question"} : task_statuses[id][f] # None}) <= 1

\* C32 (amended): a record whose status is not unknown has at most one of result,
\* error and question non-null; a record with status unknown has an error and at
\* most one of result and question, left by an earlier message.
C32_AtMostOneUnlessUnknown ==
    \A id \in DOMAIN task_statuses :
        LET r == task_statuses[id]
        IN  /\ r.status # "unknown" =>
                  Cardinality({f \in {"result", "error", "question"} : r[f] # None}) <= 1
            /\ r.result = None \/ r.question = None

\* C32 witness: a completed result and then a result with a status that is not
\* known were ingested for one task: the record is unknown with the result of
\* the first and the error of the second.
C32_Witness ==
    \E id \in TaskIds :
        /\ id \in DOMAIN task_statuses
        /\ ingests = 2
        /\ task_statuses[id].status = "unknown"
        /\ task_statuses[id].result # None
        /\ task_statuses[id].error # None

\* C33: the fields of every record agree with its status: processing has no
\* result, error or question; completed has a result and no error; failed has an
\* error and no result; unknown has an error.
C33_FieldsAgreeWithStatus ==
    \A id \in DOMAIN task_statuses :
        LET r == task_statuses[id]
        IN  /\ r.status = "processing" => r.result = None /\ r.error = None /\ r.question = None
            /\ r.status = "completed" => r.result # None /\ r.error = None
            /\ r.status = "failed" => r.error # None /\ r.result = None
            /\ r.status = "unknown" => r.error # None

\* C33 witness: a completed payload without a result was ingested for a triggered
\* task (the record holds the empty result), and a result with a status that is
\* not known made a record for another task_id.
C33_Witness ==
    \E id \in TaskIds, other \in AllIds :
        /\ id # other
        /\ ingests = 2
        /\ id \in DOMAIN task_statuses
        /\ task_statuses[id] = Rec("completed", EmptyDict, None, None)
        /\ other \in DOMAIN task_statuses
        /\ task_statuses[other].status = "unknown"


\* The step is receive_a2a_result serving m (a POST that raises takes a message
\* off the wire too: it appends to sent or ends the handler with a 500).
Delivered(m) ==
    /\ m \in Handled
    /\ sent' = sent
    /\ ~(resp'[m.task_id] = "http500" /\ resp[m.task_id] # "http500")

\* The record of the task was written by receive_a2a_result: it is neither the
\* one trigger inserted nor the one trigger wrote for a failed dispatch.
IngestedBefore(t) ==
    /\ t \in DOMAIN task_statuses
    /\ task_statuses[t].status # "processing"
    /\ task_statuses[t] # DispatchFailedRecord(assign[t].agent)

\* C34: the coordinator is delivered at most one task_result per assign_task: it
\* never serves a task_result of an agent for a task whose record an earlier
\* task_result already wrote.
C34_AtMostOneDelivered ==
    [][\A m \in Handled : Delivered(m) => ~IngestedBefore(m.task_id)]_vars


\* C35: the handlers of the coordinator do not interleave: no task_result is
\* served while a trigger call is between the insertion of its record and its
\* return, the record of that task stays the processing record meanwhile, and
\* the write of trigger for a failed dispatch replaces the processing record,
\* never a record that receive_a2a_result wrote.
C35_HandlersAtomic ==
    [][/\ busy # 0 => \A m \in Handled : ~Delivered(m)
       /\ busy # 0 => task_statuses[busy] = ProcessingRecord
       /\ busy # 0 /\ busy' = 0 /\ task_statuses'[busy] = DispatchFailedRecord(assign[busy].agent)
             => task_statuses[busy].status = "processing"]_vars

\* C35 witness: trigger wrote the record of a failed dispatch while a completed
\* task_result of that task, POSTed by the agent during the call, was waiting to
\* be served.
C35_Witness ==
    \E t \in TaskIds :
        /\ busy = 0
        /\ t \in DOMAIN task_statuses
        /\ task_statuses[t] = DispatchFailedRecord(assign[t].agent)
        /\ \E m \in net : m.task_id = t /\ m.payload.status = "completed"


\* C36: a tool wrapper never raises, and it returns the artifact exactly when
\* the result of call_mcp_tool has status success and contains it, an error
\* string otherwise.
C36_WrappersNeverRaise ==
    wrap.pc \notin {"idle", "calling"} =>
        /\ wrap.pc = "returned"
        /\ wrap.out.kind = "artifact"
              <=> /\ wrap.ret.status = "success"
                  /\ Truthy(wrap.ret.result)
                  /\ HasKey(wrap.ret.result, ArtifactKey(wrap.wrapper))
        /\ wrap.out.kind # "artifact" => wrap.out.kind = "error"


\* The step is a poll of the client (it leaves the answer in the session).
PollStep == ui.pc = "polling" /\ ui' # ui /\ ui' # NoSession

\* The client has a record of the coordinator to poll and that record is terminal.
PollingTerminal ==
    /\ ui.processing /\ ui.pc = "polling"
    /\ ui.current_task_id \in DOMAIN task_statuses
    /\ task_statuses[ui.current_task_id].status \in Terminal

\* C37: the client polls again after a 404, a timeout or a status processing,
\* queued or running, and stops (processing false) at the first poll answered
\* with another status; once the record of its task is terminal it stops; and
\* at the end of a run a client with processing set holds a task_id.
C37_PollingClient ==
    /\ [][PollStep =>
            /\ ui'.last \in {"404", "timeout"} \cup InProgress
                  => /\ ui'.processing /\ ui'.pc = "polling"
                     /\ ui'.current_task_id = ui.current_task_id
            /\ ui'.last \notin {"404", "timeout", "error"} \cup InProgress
                  => ~ui'.processing /\ ui'.pc = "idle"]_vars
    /\ [](ui.pc # "posting" /\ ui.processing => ui.current_task_id # 0)
    /\ (PollingTerminal ~> ~ui.processing)

\* C37 witness: the client was answered 404 and is still polling while the
\* record of its task is already completed.
C37_Witness ==
    /\ PollingTerminal
    /\ ui.last = "404"
    /\ task_statuses[ui.current_task_id].status = "completed"

====
